---- MODULE Spec2Model ----
(***************************************************************************)
(* A model of the healthcare chatbot server (server.js, kept in            *)
(* src/SYMPTOM_QUICK_ACTIONS_FIX.md from line 113 on) together with its    *)
(* database wrapper (database.js, src/unnamed/part_000) and the AI service *)
(* (ai-service.js, quoted in src/README.md).                               *)
(*                                                                         *)
(* Strings are TLA+ strings and are processed character by character, so   *)
(* toLowerCase, trim, includes and the regular expressions of the source   *)
(* are computed the way the JavaScript computes them.  Non-ASCII glyphs of *)
(* the response templates (emoji) are written as ASCII tags such as "[!]". *)
(* Timestamps (new Date()) are not kept in the records.                    *)
(***************************************************************************)
EXTENDS Integers, Sequences, FiniteSets, TLC

(***************************************************************************)
(* JavaScript string primitives                                            *)
(***************************************************************************)

\* JavaScript null / undefined for an optional string
NULL == "<null>"

UpperToLower ==
  [c \in {"A","B","C","D","E","F","G","H","I","J","K","L","M","N","O","P","Q",
          "R","S","T","U","V","W","X","Y","Z"} |->
     CASE c = "A" -> "a" [] c = "B" -> "b" [] c = "C" -> "c" [] c = "D" -> "d"
       [] c = "E" -> "e" [] c = "F" -> "f" [] c = "G" -> "g" [] c = "H" -> "h"
       [] c = "I" -> "i" [] c = "J" -> "j" [] c = "K" -> "k" [] c = "L" -> "l"
       [] c = "M" -> "m" [] c = "N" -> "n" [] c = "O" -> "o" [] c = "P" -> "p"
       [] c = "Q" -> "q" [] c = "R" -> "r" [] c = "S" -> "s" [] c = "T" -> "t"
       [] c = "U" -> "u" [] c = "V" -> "v" [] c = "W" -> "w" [] c = "X" -> "x"
       [] c = "Y" -> "y" [] c = "Z" -> "z"]

LowerLetters ==
  {"a","b","c","d","e","f","g","h","i","j","k","l","m","n","o","p","q","r",
   "s","t","u","v","w","x","y","z"}

DigitValue ==
  [c \in {"0","1","2","3","4","5","6","7","8","9"} |->
     CASE c = "0" -> 0 [] c = "1" -> 1 [] c = "2" -> 2 [] c = "3" -> 3
       [] c = "4" -> 4 [] c = "5" -> 5 [] c = "6" -> 6 [] c = "7" -> 7
       [] c = "8" -> 8 [] c = "9" -> 9]

CharAt(s, i) == SubSeq(s, i, i)

IsDigit(c) == c \in DOMAIN DigitValue

\* the regular-expression class \w
IsWordChar(c) == c \in LowerLetters \/ c \in DOMAIN UpperToLower \/ IsDigit(c) \/ c = "_"

\* the regular-expression class \s, for the characters messages are made of
IsSpace(c) == c \in {" ", "\n", "\t"}

RECURSIVE toLowerCase(_)
toLowerCase(s) ==
  IF Len(s) = 0 THEN ""
  ELSE LET c == CharAt(s, 1)
       IN  (IF c \in DOMAIN UpperToLower THEN UpperToLower[c] ELSE c)
             \o toLowerCase(SubSeq(s, 2, Len(s)))

RECURSIVE trimStart(_)
trimStart(s) ==
  IF Len(s) > 0 /\ IsSpace(CharAt(s, 1)) THEN trimStart(SubSeq(s, 2, Len(s))) ELSE s

RECURSIVE trimEnd(_)
trimEnd(s) ==
  IF Len(s) > 0 /\ IsSpace(CharAt(s, Len(s))) THEN trimEnd(SubSeq(s, 1, Len(s) - 1)) ELSE s

trim(s) == trimEnd(trimStart(s))

\* s.substring starting at 1-based position i equals k
MatchAt(s, k, i) == i >= 1 /\ i + Len(k) - 1 <= Len(s) /\ SubSeq(s, i, i + Len(k) - 1) = k

\* String.prototype.includes
includes(s, k) == \E i \in 1..(Len(s) - Len(k) + 1) : MatchAt(s, k, i)

\* the assertion \b at the gap before the 1-based position i (1 .. Len(s)+1)
WordBoundary(s, i) ==
  LET before == i > 1 /\ IsWordChar(CharAt(s, i - 1))
      after  == i <= Len(s) /\ IsWordChar(CharAt(s, i))
  IN  before # after

\* \bk\b matches with k starting at position i
WordMatchAt(s, k, i) ==
  MatchAt(s, k, i) /\ WordBoundary(s, i) /\ WordBoundary(s, i + Len(k))

\* /\b(k1|k2|...)\b/.test(s) for the alternatives in the sequence alts
testWords(s, alts) ==
  \E n \in 1..Len(alts) : \E i \in 1..(Len(s) - Len(alts[n]) + 1) : WordMatchAt(s, alts[n], i)

\* Array.prototype.includes
arrayIncludes(arr, x) == \E n \in 1..Len(arr) : arr[n] = x

\* end (exclusive) of the maximal run of characters satisfying the class from i
RECURSIVE DigitRunEnd(_, _)
DigitRunEnd(s, i) == IF i <= Len(s) /\ IsDigit(CharAt(s, i)) THEN DigitRunEnd(s, i + 1) ELSE i

RECURSIVE SpaceRunEnd(_, _)
SpaceRunEnd(s, i) == IF i <= Len(s) /\ IsSpace(CharAt(s, i)) THEN SpaceRunEnd(s, i + 1) ELSE i

RECURSIVE parseInt(_)
parseInt(s) ==
  IF Len(s) = 0 THEN 0
  ELSE 10 * parseInt(SubSeq(s, 1, Len(s) - 1)) + DigitValue[CharAt(s, Len(s))]

\* Array.prototype.join
RECURSIVE join(_, _)
join(arr, sep) ==
  IF Len(arr) = 0 THEN ""
  ELSE IF Len(arr) = 1 THEN arr[1]
  ELSE arr[1] \o sep \o join(Tail(arr), sep)

\* Array.prototype.filter for a membership test, keeping the order of arr
RECURSIVE filterIncluded(_, _)
filterIncluded(arr, msg) ==
  IF Len(arr) = 0 THEN <<>>
  ELSE (IF includes(msg, arr[1]) THEN <<arr[1]>> ELSE <<>>) \o filterIncluded(Tail(arr), msg)

(***************************************************************************)
(* Configuration data of server.js                                         *)
(***************************************************************************)

\* Object.keys(medicalKnowledge.commonSymptoms), in declaration order
commonSymptomNames == <<"headache", "fever", "cough", "nausea">>

commonSymptoms ==
  [k \in {"headache", "fever", "cough", "nausea"} |->
     CASE k = "headache" ->
            [description |-> "Headaches can be caused by tension, migraines, dehydration, or other factors.",
             recommendations |-> <<"Stay hydrated", "Rest in a quiet, dark room",
                                   "Consider over-the-counter pain relief if appropriate",
                                   "See a doctor if severe or persistent">>]
       [] k = "fever" ->
            [description |-> "Fever is usually a sign of infection. Normal body temperature is around 98.6F (37C).",
             recommendations |-> <<"Rest and stay hydrated", "Monitor temperature regularly",
                                   "Use fever-reducing medication if appropriate",
                                   "Seek medical care if fever is high (>103F) or persists">>]
       [] k = "cough" ->
            [description |-> "Coughs can be dry or productive, and may indicate respiratory issues.",
             recommendations |-> <<"Stay hydrated", "Use a humidifier", "Avoid irritants like smoke",
                                   "See a doctor if persistent or accompanied by other symptoms">>]
       [] k = "nausea" ->
            [description |-> "Nausea can be caused by various factors including infections, medications, or digestive issues.",
             recommendations |-> <<"Stay hydrated with small sips", "Avoid heavy or spicy foods", "Rest",
                                   "Seek care if severe or persistent">>]]

medicationInteractions ==
  [k \in {"aspirin", "ibuprofen", "warfarin"} |->
     CASE k = "aspirin" ->
            [interactions |-> <<"warfarin", "ibuprofen", "naproxen">>,
             warnings |-> "May increase bleeding risk when combined with blood thinners"]
       [] k = "ibuprofen" ->
            [interactions |-> <<"aspirin", "warfarin", "lithium">>,
             warnings |-> "Can increase risk of stomach bleeding and kidney problems"]
       [] k = "warfarin" ->
            [interactions |-> <<"aspirin", "ibuprofen", "vitamin k">>,
             warnings |-> "Many medications and foods can affect blood thinning levels"]]

triageLevels ==
  [k \in {"emergency", "urgent", "moderate", "routine"} |->
     CASE k = "emergency" ->
            [keywords |-> <<"chest pain", "can't breathe", "unconscious", "severe bleeding",
                            "heart attack", "stroke">>,
             priority |-> 1, action |-> "Call 911 immediately"]
       [] k = "urgent" ->
            [keywords |-> <<"high fever", "severe pain", "difficulty breathing", "persistent vomiting">>,
             priority |-> 2, action |-> "Seek emergency care or urgent care within hours"]
       [] k = "moderate" ->
            [keywords |-> <<"moderate pain", "fever", "persistent symptoms">>,
             priority |-> 3, action |-> "Schedule appointment within 24-48 hours"]
       [] k = "routine" ->
            [keywords |-> <<"mild symptoms", "wellness", "preventive">>,
             priority |-> 4, action |-> "Schedule routine appointment"]]

chatbotResponses ==
  [k \in {"greeting", "goodbye", "help", "symptoms", "appointment", "medication",
          "emergency", "wellness", "default"} |->
     CASE k = "greeting" ->
            <<"Hello! I'm your healthcare assistant. How can I help you with your health concerns today?",
              "Hi there! I'm here to assist with your healthcare needs. What can I help you with?",
              "Welcome! I'm your medical assistant. How may I assist you today?",
              "Hello! I'm here to help with your health questions. What would you like to know?">>
       [] k = "goodbye" ->
            <<"Take care of yourself! Remember to consult a healthcare professional for serious concerns.",
              "Stay healthy! Don't hesitate to reach out if you have more questions.",
              "Goodbye! Wishing you good health. Please consult a doctor for medical emergencies.",
              "Take care! For urgent medical issues, please contact emergency services immediately.">>
       [] k = "help" ->
            <<"I can help you with: general health information, symptom guidance, appointment scheduling, medication reminders, wellness tips, and answering health-related questions. However, I'm not a replacement for professional medical advice. For serious symptoms or emergencies, please consult a healthcare provider immediately.",
              "I assist with healthcare information, symptoms, appointments, and general wellness. Please note: I provide general information only and cannot diagnose or treat. Always consult a qualified healthcare professional for medical advice.",
              "I'm here to provide general health information and guidance. I can help with symptoms, appointments, medications, and wellness. Important: For medical emergencies, call emergency services. For diagnosis and treatment, consult a healthcare provider.">>
       [] k = "symptoms" ->
            <<"I understand you're experiencing symptoms. While I can provide general information, it's important to consult with a healthcare professional for proper diagnosis. Can you tell me more about when these symptoms started?",
              "Thank you for sharing your symptoms. For accurate diagnosis and treatment, I recommend scheduling an appointment with a healthcare provider. Would you like help finding a doctor?",
              "I hear your concern about these symptoms. For your safety, please consult a healthcare professional. If symptoms are severe or life-threatening, seek emergency care immediately.">>
       [] k = "appointment" ->
            <<"I can help you schedule an appointment! You can book through our online portal or call our scheduling line at (555) 123-4567. What type of appointment do you need?",
              "To schedule an appointment, you can visit our website, use our mobile app, or call us. What specialty or type of care are you looking for?",
              "I'd be happy to help you schedule an appointment. You can book online 24/7 or call our office during business hours. What date works best for you?">>
       [] k = "medication" ->
            <<"For medication questions, it's best to consult with your pharmacist or prescribing doctor. They can provide specific information about dosages, interactions, and side effects. Is there a specific medication you're asking about?",
              "I can provide general medication information, but for specific questions about your prescriptions, please contact your healthcare provider or pharmacist. They have access to your medical history and can give personalized advice.",
              "Medication safety is important. For questions about your medications, side effects, or interactions, please speak with your doctor or pharmacist directly.">>
       [] k = "emergency" ->
            <<"If you're experiencing a medical emergency, please call 911 or go to your nearest emergency room immediately. This chatbot cannot provide emergency medical assistance.",
              "For life-threatening emergencies, call 911 right away. Do not wait. This includes chest pain, difficulty breathing, severe injuries, or loss of consciousness.",
              "URGENT: If this is a medical emergency, please hang up and call 911 immediately. This service is for non-emergency health information only.">>
       [] k = "wellness" ->
            <<"Great question about wellness! Some general tips: stay hydrated, get regular exercise, maintain a balanced diet, get adequate sleep (7-9 hours), and manage stress. Would you like more specific wellness advice?",
              "Wellness is important for overall health. Key areas include: nutrition, physical activity, mental health, sleep, and preventive care. What aspect of wellness would you like to focus on?",
              "I'm glad you're thinking about wellness! Regular check-ups, healthy eating, exercise, and stress management are all important. Is there a specific wellness goal you're working toward?">>
       [] k = "default" ->
            <<"I understand your concern. For accurate medical information, I recommend consulting with a healthcare professional. Is there a specific health topic I can help you learn more about?",
              "Thank you for sharing. I can provide general health information, but for personalized medical advice, please consult your healthcare provider. What would you like to know more about?",
              "I'm here to help with general health information. For specific medical concerns, diagnosis, or treatment, please see a qualified healthcare professional. How else can I assist you?">>]

bookingTriggers == <<"book now", "schedule appointment", "book", "schedule", "check availability">>

(***************************************************************************)
(* Text analysis: sentiment, entities, intent                              *)
(***************************************************************************)

positiveWords == <<"good", "great", "better", "improving", "fine", "ok", "okay", "well", "thanks", "thank you">>

negativeWords == <<"bad", "worse", "terrible", "awful", "pain", "hurt", "sick", "worried", "concerned", "scared">>

sentimentOf(score) ==
  IF score > 0 THEN "positive" ELSE IF score < 0 THEN "negative" ELSE "neutral"

analyzeSentiment(message) ==
  sentimentOf(Len(filterIncluded(positiveWords, toLowerCase(message)))
                - Len(filterIncluded(negativeWords, toLowerCase(message))))

medicationPatterns == <<"aspirin", "ibuprofen", "tylenol", "advil", "warfarin", "metformin", "insulin">>

\* extractEntities(message).medications; entities.symptoms is never filled by the source
extractEntities(message) ==
  [medications |-> filterIncluded(medicationPatterns, toLowerCase(message)),
   symptoms    |-> <<>>]

\* the categories of detectIntent in declaration order, each with the alternatives of its pattern
intents ==
  << [intent |-> "emergency",
      words  |-> <<"emergency", "chest pain", "can't breathe", "difficulty breathing", "severe pain",
                   "heart attack", "stroke", "unconscious", "bleeding", "poison", "overdose",
                   "suicide", "self harm", "crushing", "pressure", "sudden">>],
     [intent |-> "greeting",
      words  |-> <<"hi", "hello", "hey", "greetings", "good morning", "good afternoon",
                   "good evening", "what's up">>],
     [intent |-> "goodbye",
      words  |-> <<"bye", "goodbye", "see you", "farewell", "exit", "quit", "thanks", "thank you",
                   "appreciate">>],
     [intent |-> "help",
      words  |-> <<"help", "what can you do", "how can you help", "assist", "capabilities", "features">>],
     [intent |-> "symptom",
      words  |-> <<"symptom", "pain", "ache", "hurt", "fever", "nausea", "dizzy", "headache", "stomach",
                   "feeling", "unwell", "sick", "illness", "disease", "condition", "tired", "fatigue",
                   "weak", "sore">>],
     [intent |-> "appointment",
      words  |-> <<"appointment", "schedule", "book", "visit", "see doctor", "see a doctor",
                   "consultation", "checkup", "exam", "available", "when", "book now",
                   "check availability", "find doctor">>],
     [intent |-> "medication",
      words  |-> <<"medication", "medicine", "drug", "pill", "prescription", "dosage", "side effect",
                   "interaction", "pharmacy", "take", "taking">>],
     [intent |-> "wellness",
      words  |-> <<"wellness", "healthy", "diet", "exercise", "fitness", "nutrition", "sleep", "stress",
                   "mental health", "prevention", "preventive", "weight", "fitness">>],
     [intent |-> "specialty",
      words  |-> <<"cardiologist", "dermatologist", "neurologist", "orthopedic", "pediatrician",
                   "psychiatrist", "specialist", "specialty">>],
     [intent |-> "triage",
      words  |-> <<"urgent", "emergency", "severe", "mild", "moderate", "how bad", "how serious",
                   "priority">>] >>

\* the last matching category instead of the first
RECURSIVE lastMatchingIntent(_, _)
lastMatchingIntent(msg, n) ==
  IF n > Len(intents) THEN "general"
  ELSE IF lastMatchingIntent(msg, n + 1) # "general" THEN lastMatchingIntent(msg, n + 1)
  ELSE IF testWords(msg, intents[n].words) THEN intents[n].intent
  ELSE "general"

\* matches[0].intent over the categories from n on, "general" when none matches
RECURSIVE firstMatchingIntent(_, _)
firstMatchingIntent(msg, n) ==
  IF n > Len(intents) THEN "general"
  ELSE IF testWords(msg, intents[n].words) THEN intents[n].intent
  ELSE firstMatchingIntent(msg, n + 1)

detectIntent(message) == firstMatchingIntent(trim(toLowerCase(message)), 1)

(***************************************************************************)
(* Symptom information and triage                                          *)
(***************************************************************************)

durationUnitsInfo == <<"day", "days", "hour", "hours", "week", "weeks", "month", "months">>

severityWords == <<"severe", "mild", "moderate", "intense", "extreme", "slight">>

\* first alternative of alts (in order) that matches s at position i and satisfies the
\* trailing \b when bounded is TRUE; 0 when there is none
RECURSIVE firstAltAt(_, _, _, _, _)
firstAltAt(s, alts, i, bounded, n) ==
  IF n > Len(alts) THEN 0
  ELSE IF MatchAt(s, alts[n], i) /\ (~bounded \/ WordBoundary(s, i + Len(alts[n]))) THEN n
  ELSE firstAltAt(s, alts, i, bounded, n + 1)

\* leftmost match of (\d+)\s*(unit1|unit2|...) under the flag i, with \b on both sides
\* when bounded; ls is toLowerCase(s); the result is <<digits, unit>> as they are written
\* in s, or <<>> when nothing matches
RECURSIVE matchDurationFrom(_, _, _, _, _)

\* the attempt at position i: the digits end before de, the unit starts at se and is the
\* alternative n (0: none matches, the search goes on at i + 1)
durationAttempt(s, ls, units, bounded, i, de, se, n) ==
  IF n # 0 THEN << SubSeq(s, i, de - 1), SubSeq(s, se, se + Len(units[n]) - 1) >>
  ELSE matchDurationFrom(s, ls, units, bounded, i + 1)

unitAttempt(s, ls, units, bounded, i, de, se) ==
  durationAttempt(s, ls, units, bounded, i, de, se, firstAltAt(ls, units, se, bounded, 1))

matchDurationFrom(s, ls, units, bounded, i) ==
  IF i > Len(s) THEN <<>>
  ELSE IF IsDigit(CharAt(s, i)) /\ (~bounded \/ WordBoundary(s, i))
       THEN unitAttempt(s, ls, units, bounded, i, DigitRunEnd(s, i), SpaceRunEnd(s, DigitRunEnd(s, i)))
       ELSE matchDurationFrom(s, ls, units, bounded, i + 1)

matchDuration(s, units, bounded) == matchDurationFrom(s, toLowerCase(s), units, bounded, 1)

\* leftmost match of \b(w1|w2|...)\b in s: the matched word, or NULL
RECURSIVE matchWord(_, _, _)

wordAttempt(s, alts, i, n) == IF n # 0 THEN alts[n] ELSE matchWord(s, alts, i + 1)

matchWord(s, alts, i) ==
  IF i > Len(s) THEN NULL
  ELSE wordAttempt(s, alts, i, IF WordBoundary(s, i) THEN firstAltAt(s, alts, i, TRUE, 1) ELSE 0)

\* the object extractSymptomInfo returns for the lower-cased message msg and the match dm
\* of its duration pattern
symptomInfoOf(msg, dm) ==
  [symptoms |-> filterIncluded(commonSymptomNames, msg),
   duration |-> IF dm # <<>> THEN dm[1] \o " " \o dm[2] ELSE NULL,
   severity |-> matchWord(msg, severityWords, 1)]

extractSymptomInfo(message) ==
  symptomInfoOf(toLowerCase(message), matchDuration(message, durationUnitsInfo, TRUE))

durationUnitsTriage == <<"day", "days", "week", "weeks", "month", "months">>

\* JavaScript truthiness of an optional string
truthy(s) == s # NULL /\ s # ""

\* the medicalKnowledge.triageLevels[level].keywords loop: some keyword is included in msg
hasKeyword(msg, level) ==
  \E n \in 1..Len(triageLevels[level].keywords) : includes(msg, triageLevels[level].keywords[n])

TriageResult(level, priority, action, urgency) ==
  [triageLevel |-> level, priority |-> priority, action |-> action, urgency |-> urgency]

\* the ladder with the urgent keywords tested before the emergency keywords
triageLadderUrgentFirst(msg, sev, dm) ==
  IF hasKeyword(msg, "urgent")
  THEN TriageResult("urgent", 2, triageLevels["urgent"].action, "HIGH")
  ELSE IF hasKeyword(msg, "emergency")
  THEN TriageResult("emergency", 1, triageLevels["emergency"].action, "CRITICAL")
  ELSE IF sev # NULL /\ arrayIncludes(<<"severe", "intense", "extreme">>, sev)
  THEN TriageResult("urgent", 2, triageLevels["urgent"].action, "HIGH")
  ELSE IF sev # NULL /\ arrayIncludes(<<"moderate">>, sev)
  THEN TriageResult("moderate", 3, triageLevels["moderate"].action, "MEDIUM")
  ELSE IF dm # <<>> /\ (   (includes(toLowerCase(dm[2]), "week") /\ parseInt(dm[1]) >= 2)
                        \/ includes(toLowerCase(dm[2]), "month"))
  THEN TriageResult("moderate", 3, triageLevels["moderate"].action, "MEDIUM")
  ELSE TriageResult("routine", 4, "Schedule routine appointment", "LOW")

\* the ladder with the severity rules tested before the urgent keywords
triageLadderSeverityFirst(msg, sev, dm) ==
  IF hasKeyword(msg, "emergency")
  THEN TriageResult("emergency", 1, triageLevels["emergency"].action, "CRITICAL")
  ELSE IF sev # NULL /\ arrayIncludes(<<"severe", "intense", "extreme">>, sev)
  THEN TriageResult("urgent", 2, triageLevels["urgent"].action, "HIGH")
  ELSE IF sev # NULL /\ arrayIncludes(<<"moderate">>, sev)
  THEN TriageResult("moderate", 3, triageLevels["moderate"].action, "MEDIUM")
  ELSE IF hasKeyword(msg, "urgent")
  THEN TriageResult("urgent", 2, triageLevels["urgent"].action, "HIGH")
  ELSE IF dm # <<>> /\ (   (includes(toLowerCase(dm[2]), "week") /\ parseInt(dm[1]) >= 2)
                        \/ includes(toLowerCase(dm[2]), "month"))
  THEN TriageResult("moderate", 3, triageLevels["moderate"].action, "MEDIUM")
  ELSE TriageResult("routine", 4, "Schedule routine appointment", "LOW")

\* the ladder with the duration rule tested before the severity rules
triageLadderDurationFirst(msg, sev, dm) ==
  IF hasKeyword(msg, "emergency")
  THEN TriageResult("emergency", 1, triageLevels["emergency"].action, "CRITICAL")
  ELSE IF hasKeyword(msg, "urgent")
  THEN TriageResult("urgent", 2, triageLevels["urgent"].action, "HIGH")
  ELSE IF dm # <<>> /\ (   (includes(toLowerCase(dm[2]), "week") /\ parseInt(dm[1]) >= 2)
                        \/ includes(toLowerCase(dm[2]), "month"))
  THEN TriageResult("moderate", 3, triageLevels["moderate"].action, "MEDIUM")
  ELSE IF sev # NULL /\ arrayIncludes(<<"severe", "intense", "extreme">>, sev)
  THEN TriageResult("urgent", 2, triageLevels["urgent"].action, "HIGH")
  ELSE IF sev # NULL /\ arrayIncludes(<<"moderate">>, sev)
  THEN TriageResult("moderate", 3, triageLevels["moderate"].action, "MEDIUM")
  ELSE TriageResult("routine", 4, "Schedule routine appointment", "LOW")

\* the decision ladder of performTriage for the lower-cased message msg, the lower-cased
\* severity sev (NULL when absent) and the match dm of the duration pattern
triageLadder(msg, sev, dm) ==
  IF hasKeyword(msg, "emergency")
  THEN TriageResult("emergency", 1, triageLevels["emergency"].action, "CRITICAL")
  ELSE IF hasKeyword(msg, "urgent")
  THEN TriageResult("urgent", 2, triageLevels["urgent"].action, "HIGH")
  ELSE IF sev # NULL /\ arrayIncludes(<<"severe", "intense", "extreme">>, sev)
  THEN TriageResult("urgent", 2, triageLevels["urgent"].action, "HIGH")
  ELSE IF sev # NULL /\ arrayIncludes(<<"moderate">>, sev)
  THEN TriageResult("moderate", 3, triageLevels["moderate"].action, "MEDIUM")
  ELSE IF dm # <<>> /\ (   (includes(toLowerCase(dm[2]), "week") /\ parseInt(dm[1]) >= 2)
                        \/ includes(toLowerCase(dm[2]), "month"))
  THEN TriageResult("moderate", 3, triageLevels["moderate"].action, "MEDIUM")
  ELSE TriageResult("routine", 4, "Schedule routine appointment", "LOW")

performTriage(message, symptomInfo) ==
  triageLadder(toLowerCase(message),
               IF truthy(symptomInfo.severity) THEN toLowerCase(symptomInfo.severity) ELSE NULL,
               IF truthy(symptomInfo.duration)
               THEN matchDuration(symptomInfo.duration, durationUnitsTriage, FALSE)
               ELSE <<>>)

\* the side effect of performTriage: analytics.emergencyCount++ on an emergency keyword
performTriageEmergencyCount(message) ==
  IF hasKeyword(toLowerCase(message), "emergency") THEN 1 ELSE 0

(***************************************************************************)
(* Medication interaction checker                                          *)
(***************************************************************************)

\* the record pushed for med1 and med2 when the table entry of med1 lists med2
interactionOf(med1, med2) ==
  IF arrayIncludes(medicationInteractions[med1].interactions, med2)
  THEN << [medication1 |-> med1, medication2 |-> med2,
           warning |-> medicationInteractions[med1].warnings] >>
  ELSE <<>>

\* the inner loop over j = i+1 .. length-1 for a fixed i
RECURSIVE interactionsFrom(_, _, _)
interactionsFrom(medications, i, j) ==
  IF j > Len(medications) THEN <<>>
  ELSE interactionOf(toLowerCase(medications[i]), toLowerCase(medications[j]))
         \o interactionsFrom(medications, i, j + 1)

\* the outer loop over i
RECURSIVE interactionsAll(_, _)
interactionsAll(medications, i) ==
  IF i > Len(medications) THEN <<>>
  ELSE (IF toLowerCase(medications[i]) \in DOMAIN medicationInteractions
        THEN interactionsFrom(medications, i, i + 1)
        ELSE <<>>)
       \o interactionsAll(medications, i + 1)

interactionWarning(x) ==
  "[!] Potential interaction between " \o x.medication1 \o " and " \o x.medication2
     \o ": " \o x.warning

interactionCheckOf(found) ==
  [interactions |-> found,
   warnings     |-> [n \in 1..Len(found) |-> interactionWarning(found[n])]]

checkMedicationInteractions(medications) == interactionCheckOf(interactionsAll(medications, 1))

(***************************************************************************)
(* Specialties and wellness tips                                           *)
(***************************************************************************)

specialtyNames == <<"cardiology", "dermatology", "endocrinology", "gastroenterology", "neurology",
                    "orthopedics", "pediatrics", "psychiatry">>

specialties ==
  [k \in {"cardiology", "dermatology", "endocrinology", "gastroenterology", "neurology",
          "orthopedics", "pediatrics", "psychiatry"} |->
     CASE k = "cardiology" -> "Heart and cardiovascular system"
       [] k = "dermatology" -> "Skin conditions"
       [] k = "endocrinology" -> "Hormones and metabolism"
       [] k = "gastroenterology" -> "Digestive system"
       [] k = "neurology" -> "Nervous system and brain"
       [] k = "orthopedics" -> "Bones, joints, and muscles"
       [] k = "pediatrics" -> "Children's health"
       [] k = "psychiatry" -> "Mental health"]

wellnessCategories == <<"nutrition", "exercise", "sleep", "mental">>

wellnessTips ==
  [k \in {"nutrition", "exercise", "sleep", "mental"} |->
     CASE k = "nutrition" -> <<"Eat a balanced diet with fruits and vegetables",
                               "Stay hydrated (8 glasses of water daily)",
                               "Limit processed foods", "Control portion sizes">>
       [] k = "exercise" -> <<"Aim for 150 minutes of moderate exercise per week",
                              "Include strength training 2x per week",
                              "Stay active throughout the day", "Find activities you enjoy">>
       [] k = "sleep" -> <<"Aim for 7-9 hours of sleep per night", "Maintain a regular sleep schedule",
                           "Create a relaxing bedtime routine", "Avoid screens before bed">>
       [] k = "mental" -> <<"Practice stress management techniques",
                            "Stay connected with friends and family",
                            "Take breaks when needed", "Consider meditation or mindfulness">>]

\* String.prototype.replace(pattern, "") for a literal pattern: the first occurrence is removed
RECURSIVE removeFirst(_, _, _)
removeFirst(s, k, i) ==
  IF i > Len(s) - Len(k) + 1 THEN s
  ELSE IF MatchAt(s, k, i) THEN SubSeq(s, 1, i - 1) \o SubSeq(s, i + Len(k), Len(s))
  ELSE removeFirst(s, k, i + 1)

\* the first specialty the loop of the specialty branch returns for, or NULL
RECURSIVE firstSpecialty(_, _)
firstSpecialty(message, n) ==
  IF n > Len(specialtyNames) THEN NULL
  ELSE IF includes(message, removeFirst(specialtyNames[n], "ology", 1)) \/ includes(message, specialtyNames[n])
       THEN specialtyNames[n]
       ELSE firstSpecialty(message, n + 1)

\* the first wellness category the loop of the wellness branch returns for, or NULL
RECURSIVE firstWellness(_, _)
firstWellness(message, n) ==
  IF n > Len(wellnessCategories) THEN NULL
  ELSE IF includes(message, wellnessCategories[n]) THEN wellnessCategories[n]
  ELSE firstWellness(message, n + 1)

(***************************************************************************)
(* Bounds and inputs                                                       *)
(***************************************************************************)

\* chat requests accepted in one behaviour
MaxTurns == 4

\* Math.random() draws considered for the choice among template variants
MaxRandom == 2

SessionIds == {"session_1"}

\* the message bodies a client sends
Messages ==
  {"Book Now", "I need an appointment", "I have severe chest pain", "Tomorrow", "I have a headache"}

\* chat requests accepted in one behaviour of a client that asks about symptoms,
\* medications and wellness
MaxCareTurns == 3

\* the message bodies of that client: symptom messages of every triage level, with and
\* without a symptom of the knowledge base, and messages of the other intents
CareMessages ==
  {"I have a high fever", "I feel sick with persistent vomiting", "I have chest pains and a fever",
   "Severe pain in my stomach", "I take aspirin and warfarin", "I need an appointment",
   "Tips for better sleep", "How do I stay healthy", "What is the weather", "Hello", "Thanks, bye"}

\* chat requests accepted in one behaviour of a client that books an appointment
MaxBookingTurns == 4

\* the message bodies of that client: a booking trigger, the Cancel quick action, a date
\* and a message of emergency intent
BookingMessages == {"Book Now", "Cancel", "Tomorrow", "I have severe chest pain"}

\* the text analysis of each message a client sends, evaluated once per message: the
\* values generateResponse and the functions it calls compute from the message text alone
messageAnalysis ==
  [m \in Messages \cup CareMessages \cup BookingMessages |->
     [message     |-> trim(toLowerCase(m)),
      msg         |-> toLowerCase(m),
      intent      |-> detectIntent(m),
      medications |-> extractEntities(m).medications,
      sentiment   |-> analyzeSentiment(m),
      symptomInfo |-> extractSymptomInfo(m),
      triage      |-> performTriage(m, extractSymptomInfo(m)),
      emergencyCount |-> performTriageEmergencyCount(m),
      specialty   |-> firstSpecialty(trim(toLowerCase(m)), 1),
      category    |-> firstWellness(trim(toLowerCase(m)), 1)]]

\* what aiService.generateAIResponse resolves to: a text, or null on any failure
AIText == "AI: please consult a healthcare professional."

AIOutcomes == {AIText, NULL}

RandomDraws == 0..(MaxRandom - 1)

\* arr[Math.floor(Math.random() * arr.length)] for the draw rnd
pick(arr, rnd) == arr[(rnd % Len(arr)) + 1]

(***************************************************************************)
(* State                                                                   *)
(***************************************************************************)

VARIABLES
  contexts,       \* the session context objects ever allocated, by object identity
  sessions,       \* the Map sessions: session id -> identity of its context object
  rateLimits,     \* the Map rateLimits: session id -> [count, resetTime]
  now,            \* Date.now(), in milliseconds
  analytics,      \* the analytics object
  aiAvailable,    \* aiService.isAIAvailable(): fixed when the process starts
  dbSessions,     \* table sessions: session id -> [userInfo, metadata]
  dbMessages,     \* table messages, in insertion order
  dbEvents,       \* table analytics, in insertion order
  dbProfiles,     \* table user_profiles: session id -> [medications, symptoms]
  emitted,        \* io.emit calls, in order
  inflight,       \* accepted chat requests whose response is not yet sent, by request number
  responses,      \* the HTTP responses of /api/chat, in the order they are sent
  triageCall,     \* a direct call of performTriage: its arguments and its result
  directCall      \* a call made from outside the chat handler: its function, arguments and result

vars == <<contexts, sessions, rateLimits, now, analytics, aiAvailable, dbSessions,
          dbMessages, dbEvents, dbProfiles, emitted, inflight, responses, triageCall, directCall>>

RATE_LIMIT_WINDOW == 60000

RATE_LIMIT_MAX_REQUESTS == 30

\* the context literal of app.post('/api/chat') and of the else branch of generateResponse
NewContext(sessionId) ==
  [conversationHistory    |-> <<>>,
   currentTopic           |-> NULL,
   askedDuration          |-> FALSE,
   askedSeverity          |-> FALSE,
   askedOtherSymptoms     |-> FALSE,
   askedAppointmentType   |-> FALSE,
   askedAppointmentDate   |-> FALSE,
   askedAppointmentReason |-> FALSE,
   appointmentType        |-> NULL,
   appointmentDate        |-> NULL,
   appointmentReason      |-> NULL,
   sessionId              |-> sessionId,
   userInfo               |-> [medications |-> <<>>]]

\* metadata.key || dflt on a parsed metadata object: currentTopic holds an optional
\* string, every other key a boolean
metaGet(metadata, key, dflt) ==
  IF key \notin DOMAIN metadata THEN dflt
  ELSE IF key = "currentTopic" THEN (IF truthy(metadata[key]) THEN metadata[key] ELSE dflt)
  ELSE IF metadata[key] THEN TRUE ELSE dflt

\* database.getMessages(sessionId): the rows of the session in insertion order
RECURSIVE getMessages(_, _)
getMessages(rows, sessionId) ==
  IF Len(rows) = 0 THEN <<>>
  ELSE (IF rows[1].session_id = sessionId THEN <<rows[1]>> ELSE <<>>)
         \o getMessages(Tail(rows), sessionId)

\* the context literal built from a database row and its messages; the appointment fields
\* are not set by the literal: they read as undefined, which every test of the source
\* treats like false / null
HydratedContext(sessionId, dbSession, messages) ==
  [conversationHistory    |-> [n \in 1..Len(messages) |->
                                 [role |-> messages[n].role, message |-> messages[n].message]],
   currentTopic           |-> metaGet(dbSession.metadata, "currentTopic", NULL),
   askedDuration          |-> metaGet(dbSession.metadata, "askedDuration", FALSE),
   askedSeverity          |-> metaGet(dbSession.metadata, "askedSeverity", FALSE),
   askedOtherSymptoms     |-> metaGet(dbSession.metadata, "askedOtherSymptoms", FALSE),
   askedAppointmentType   |-> FALSE,
   askedAppointmentDate   |-> FALSE,
   askedAppointmentReason |-> FALSE,
   appointmentType        |-> NULL,
   appointmentDate        |-> NULL,
   appointmentReason      |-> NULL,
   sessionId              |-> sessionId,
   userInfo               |-> dbSession.userInfo]

\* a row of table messages as database.saveMessage inserts it
MessageRow(sessionId, role, message, intent, triageLevel) ==
  [session_id |-> sessionId, role |-> role, message |-> message, intent |-> intent,
   triage_level |-> triageLevel]

\* a history that keeps its last two turns only
pushHistoryBounded(context, role, message) ==
  [context EXCEPT !.conversationHistory =
     IF Len(@) >= 2 THEN Append(Tail(@), [role |-> role, message |-> message])
     ELSE Append(@, [role |-> role, message |-> message])]

pushHistory(context, role, message) ==
  [context EXCEPT !.conversationHistory = Append(@, [role |-> role, message |-> message])]

(***************************************************************************)
(* Appointment flow controller                                             *)
(***************************************************************************)

\* the value null that handleAppointmentFlow returns for "no transition"
NullResult == [response |-> NULL, quickActions |-> <<>>]

\* what one call of handleAppointmentFlow does: its return value, the context object
\* after the call, the rows it saves, the metadata it writes with updateSession and
\* whether it stores the context in the Map sessions
FlowStep(ret, context, metadata, sessionId) ==
  [ret     |-> ret,
   ctx     |-> pushHistory(context, "bot", ret.response),
   saves   |-> << MessageRow(sessionId, "bot", ret.response, "appointment", NULL) >>,
   updates |-> << metadata >>,
   set     |-> TRUE]

FlowNone(context) ==
  [ret |-> NullResult, ctx |-> context, saves |-> <<>>, updates |-> <<>>, set |-> FALSE]

AskTypeResponse(rnd) ==
  pick(chatbotResponses["appointment"], rnd) \o "\n\nWhat type of appointment are you looking for?"

AskDateResponse(message) ==
  "Thank you! You're looking for a " \o message \o " appointment. "
    \o "What date would work best for you? You can say things like \"tomorrow\", \"next week\", or a specific date."

AskReasonResponse(message) ==
  "Great! " \o message \o " works. "
    \o "What is the reason for your visit? (e.g., routine checkup, specific symptoms, follow-up)"

\* the summary with the stored type and the stored date exchanged
SummaryResponseSwapped(appointmentType, appointmentDate, message) ==
  "Perfect! I have your appointment details:\n\n"
    \o "**Appointment Type:** " \o (IF truthy(appointmentDate) THEN appointmentDate ELSE "General") \o "\n"
    \o "**Preferred Date:** " \o (IF truthy(appointmentType) THEN appointmentType ELSE "Not specified") \o "\n"
    \o "**Reason:** " \o message \o "\n\n"
    \o "To complete your booking, you can:\n"
    \o "1. Call our scheduling line at (555) 123-4567\n"
    \o "2. Visit our online portal at www.healthcareportal.com\n"
    \o "3. Use our mobile app\n\n"
    \o "Our team will confirm your appointment within 24 hours."

SummaryResponse(appointmentType, appointmentDate, message) ==
  "Perfect! I have your appointment details:\n\n"
    \o "**Appointment Type:** " \o (IF truthy(appointmentType) THEN appointmentType ELSE "General") \o "\n"
    \o "**Preferred Date:** " \o (IF truthy(appointmentDate) THEN appointmentDate ELSE "Not specified") \o "\n"
    \o "**Reason:** " \o message \o "\n\n"
    \o "To complete your booking, you can:\n"
    \o "1. Call our scheduling line at (555) 123-4567\n"
    \o "2. Visit our online portal at www.healthcareportal.com\n"
    \o "3. Use our mobile app\n\n"
    \o "Our team will confirm your appointment within 24 hours."

\* the return of a branch that starts the flow, for the context c1 with the flag set
StartFlowWith(c1, sessionId, rnd) ==
  FlowStep([response |-> AskTypeResponse(rnd),
            quickActions |-> <<"General Checkup", "Specialist Visit", "Follow-up", "Emergency">>],
           c1,
           [currentTopic |-> "appointment", askedAppointmentType |-> c1.askedAppointmentType],
           sessionId)

\* Idle -> AskedType: both the trigger branch and the final "start appointment flow" branch
StartFlow(context, sessionId, rnd) ==
  StartFlowWith([context EXCEPT !.askedAppointmentType = TRUE], sessionId, rnd)

StoreTypeWith(message, c1, sessionId) ==
  FlowStep([response |-> AskDateResponse(message),
            quickActions |-> <<"Tomorrow", "Next Week", "This Week", "Cancel">>],
           c1,
           [currentTopic |-> "appointment",
            askedAppointmentType |-> c1.askedAppointmentType,
            askedAppointmentDate |-> c1.askedAppointmentDate,
            askedAppointmentReason |-> c1.askedAppointmentReason,
            appointmentType |-> c1.appointmentType],
           sessionId)

\* AskedType -> AskedDate
StoreType(message, context, sessionId) ==
  StoreTypeWith(message,
                [context EXCEPT !.appointmentType = message, !.askedAppointmentDate = TRUE],
                sessionId)

StoreDateWith(message, c1, sessionId) ==
  FlowStep([response |-> AskReasonResponse(message),
            quickActions |-> <<"Routine Checkup", "Follow-up", "Symptoms", "Other">>],
           c1,
           [currentTopic |-> "appointment",
            askedAppointmentType |-> c1.askedAppointmentType,
            askedAppointmentDate |-> c1.askedAppointmentDate,
            askedAppointmentReason |-> c1.askedAppointmentReason,
            appointmentType |-> c1.appointmentType,
            appointmentDate |-> c1.appointmentDate],
           sessionId)

\* the step that asks for the reason without keeping the date
StoreDateSetsFlagOnly(message, context, sessionId) ==
  StoreDateWith(message, [context EXCEPT !.askedAppointmentReason = TRUE], sessionId)

\* AskedDate -> AskedReason
StoreDate(message, context, sessionId) ==
  StoreDateWith(message,
                [context EXCEPT !.appointmentDate = message, !.askedAppointmentReason = TRUE],
                sessionId)

\* the completion step that resets the flags and leaves the stored values in place
CompleteBookingKeepsValues(message, context, sessionId, response) ==
  [ret     |-> [response |-> response,
                quickActions |-> <<"New Appointment", "View Details", "Contact Support">>],
   ctx     |-> [pushHistory(context, "bot", response)
                  EXCEPT !.askedAppointmentType = FALSE,
                         !.askedAppointmentDate = FALSE,
                         !.askedAppointmentReason = FALSE,
                         !.appointmentReason = message],
   saves   |-> << MessageRow(sessionId, "bot", response, "appointment", NULL) >>,
   updates |-> << [currentTopic |-> "appointment",
                   askedAppointmentType |-> FALSE,
                   askedAppointmentDate |-> FALSE,
                   askedAppointmentReason |-> FALSE] >>,
   set     |-> TRUE]

\* the completion step that resets the first flag only
CompleteBookingResetsTypeOnly(message, context, sessionId, response) ==
  [ret     |-> [response |-> response,
                quickActions |-> <<"New Appointment", "View Details", "Contact Support">>],
   ctx     |-> [pushHistory(context, "bot", response)
                  EXCEPT !.askedAppointmentType = FALSE,
                         !.appointmentType = NULL,
                         !.appointmentDate = NULL,
                         !.appointmentReason = NULL],
   saves   |-> << MessageRow(sessionId, "bot", response, "appointment", NULL) >>,
   updates |-> << [currentTopic |-> "appointment",
                   askedAppointmentType |-> FALSE] >>,
   set     |-> TRUE]

\* the completion step once the summary text is composed
CompleteBookingWith(message, context, sessionId, response) ==
  [ret     |-> [response |-> response,
                quickActions |-> <<"New Appointment", "View Details", "Contact Support">>],
   ctx     |-> [pushHistory(context, "bot", response)
                  EXCEPT !.askedAppointmentType = FALSE,
                         !.askedAppointmentDate = FALSE,
                         !.askedAppointmentReason = FALSE,
                         !.appointmentType = NULL,
                         !.appointmentDate = NULL,
                         !.appointmentReason = NULL],
   saves   |-> << MessageRow(sessionId, "bot", response, "appointment", NULL) >>,
   updates |-> << [currentTopic |-> "appointment",
                   askedAppointmentType |-> FALSE,
                   askedAppointmentDate |-> FALSE,
                   askedAppointmentReason |-> FALSE,
                   appointmentType |-> NULL,
                   appointmentDate |-> NULL,
                   appointmentReason |-> NULL] >>,
   set     |-> TRUE]

\* AskedReason -> Idle: the summary is composed and recorded, then the flow is reset
CompleteBooking(message, context, sessionId) ==
  CompleteBookingWith(message, context, sessionId,
                      SummaryResponse(context.appointmentType, context.appointmentDate, message))

\* the branches without the test that keeps a trigger phrase from being stored as a type
flowBranchesStoreTrigger(message, context, msg, sessionId, rnd) ==
  IF arrayIncludes(bookingTriggers, msg) /\ ~context.askedAppointmentType
  THEN StartFlow(context, sessionId, rnd)
  ELSE IF context.askedAppointmentType /\ ~context.askedAppointmentDate
  THEN StoreType(message, context, sessionId)
  ELSE IF context.askedAppointmentDate /\ ~context.askedAppointmentReason
  THEN StoreDate(message, context, sessionId)
  ELSE IF context.askedAppointmentReason
  THEN CompleteBooking(message, context, sessionId)
  ELSE IF ~context.askedAppointmentType
  THEN StartFlow(context, sessionId, rnd)
  ELSE FlowNone(context)

\* the branches with a Cancel that leaves the flow
flowBranchesWithCancel(message, context, msg, sessionId, rnd) ==
  IF msg = "cancel" /\ context.askedAppointmentType
  THEN [FlowNone(context) EXCEPT !.ctx = [context EXCEPT !.askedAppointmentType = FALSE,
                                                         !.askedAppointmentDate = FALSE,
                                                         !.askedAppointmentReason = FALSE,
                                                         !.appointmentType = NULL,
                                                         !.appointmentDate = NULL,
                                                         !.appointmentReason = NULL]]
  ELSE IF arrayIncludes(bookingTriggers, msg) /\ ~context.askedAppointmentType
  THEN StartFlow(context, sessionId, rnd)
  ELSE IF context.askedAppointmentType /\ ~context.askedAppointmentDate
  THEN IF ~arrayIncludes(bookingTriggers, msg)
       THEN StoreType(message, context, sessionId)
       ELSE FlowNone(context)
  ELSE IF context.askedAppointmentDate /\ ~context.askedAppointmentReason
  THEN StoreDate(message, context, sessionId)
  ELSE IF context.askedAppointmentReason
  THEN CompleteBooking(message, context, sessionId)
  ELSE IF ~context.askedAppointmentType
  THEN StartFlow(context, sessionId, rnd)
  ELSE FlowNone(context)

\* the branches of handleAppointmentFlow for the lower-cased message msg and the session
\* id in use after the "ensure sessionId is available" step
flowBranches(message, context, msg, sessionId, rnd) ==
  IF arrayIncludes(bookingTriggers, msg) /\ ~context.askedAppointmentType
  THEN StartFlow(context, sessionId, rnd)
  ELSE IF context.askedAppointmentType /\ ~context.askedAppointmentDate
  THEN IF ~arrayIncludes(bookingTriggers, msg)
       THEN StoreType(message, context, sessionId)
       ELSE FlowNone(context)
  ELSE IF context.askedAppointmentDate /\ ~context.askedAppointmentReason
  THEN StoreDate(message, context, sessionId)
  ELSE IF context.askedAppointmentReason
  THEN CompleteBooking(message, context, sessionId)
  ELSE IF ~context.askedAppointmentType
  THEN StartFlow(context, sessionId, rnd)
  ELSE FlowNone(context)

\* the session id in use after "if (!sessionId && context.sessionId)"
flowSessionId(context, sessionIdArg) ==
  IF ~truthy(sessionIdArg) /\ truthy(context.sessionId) THEN context.sessionId ELSE sessionIdArg

handleAppointmentFlow(message, context, sessionIdArg, rnd) ==
  flowBranches(message, context, messageAnalysis[message].msg,
               flowSessionId(context, sessionIdArg), rnd)

(***************************************************************************)
(* Symptom assessment                                                      *)
(***************************************************************************)

NoTriage == [triageLevel |-> NULL, priority |-> 0, action |-> NULL, urgency |-> NULL]

\* `${i + 1}. ${r}` for the items of arr, joined by newlines
numbered(arr) ==
  join([n \in 1..Len(arr) |-> pick(<<"1", "2", "3", "4", "5", "6", "7", "8", "9">>, n - 1) \o ". " \o arr[n]], "\n")

isHighUrgency(triage) == triage.urgency = "CRITICAL" \/ triage.urgency = "HIGH"

\* the follow-up questions, in the order they are pushed
followUpQuestions(askDuration, askSeverity, askOther) ==
  (IF askDuration THEN <<"How long have you been experiencing this?">> ELSE <<>>)
    \o (IF askSeverity THEN <<"On a scale of 1-10, how would you rate the severity?">> ELSE <<>>)
    \o (IF askOther THEN <<"Are you experiencing any other symptoms?">> ELSE <<>>)

\* the text generateSymptomAssessment builds for the first symptom found
assessmentResponse(symptom, knowledge, info, sentiment, triage, askDuration, askSeverity, followUps) ==
  "I understand you're experiencing " \o symptom \o ". "
    \o (IF isHighUrgency(triage)
        THEN "\n\n[ALERT] **URGENCY: " \o triage.urgency \o "**\n" \o triage.action \o "\n\n"
        ELSE "")
    \o knowledge.description \o " "
    \o (IF sentiment = "negative" THEN "I understand this is concerning for you. " ELSE "")
    \o (IF ~askDuration /\ truthy(info.duration) THEN "You mentioned it's been " \o info.duration \o ". " ELSE "")
    \o (IF ~askSeverity /\ truthy(info.severity) THEN "You mentioned it's " \o info.severity \o ". " ELSE "")
    \o (IF Len(followUps) > 0 THEN join(followUps, " ") ELSE "")
    \o "\n\n**General recommendations:**\n" \o numbered(knowledge.recommendations)
    \o "\n\n**Recommended Action:** " \o triage.action
    \o "\n\n[!] For proper diagnosis and treatment, please consult with a healthcare professional."

\* the non-null result of generateSymptomAssessment
assessmentFound(context, info, sentiment, triage, emergencyCount, askDuration, askSeverity, askOther) ==
  [isNull        |-> FALSE,
   response      |-> assessmentResponse(info.symptoms[1], commonSymptoms[info.symptoms[1]], info,
                                        sentiment, triage, askDuration, askSeverity,
                                        followUpQuestions(askDuration, askSeverity, askOther)),
   ctx           |-> [context EXCEPT !.askedDuration = @ \/ askDuration,
                                     !.askedSeverity = @ \/ askSeverity,
                                     !.askedOtherSymptoms = TRUE],
   quickActions  |-> (IF isHighUrgency(triage) THEN <<"Call 911">> ELSE <<>>)
                       \o <<"Schedule Appointment", "Find Doctor", "More Info">>,
   triage        |-> triage,
   emergencyCount |-> emergencyCount,
   symptoms      |-> info.symptoms]

\* generateSymptomAssessment once symptomInfo, sentiment and triage are computed
assessmentOf(context, info, sentiment, triage, emergencyCount) ==
  IF Len(info.symptoms) > 0
  THEN assessmentFound(context, info, sentiment, triage, emergencyCount,
                       ~truthy(info.duration) /\ ~context.askedDuration,
                       ~truthy(info.severity) /\ ~context.askedSeverity,
                       ~context.askedOtherSymptoms)
  ELSE [isNull        |-> TRUE,
        response      |-> NULL,
        ctx           |-> context,
        quickActions  |-> <<>>,
        triage        |-> NoTriage,
        emergencyCount |-> emergencyCount,
        symptoms      |-> info.symptoms]

assessmentWith(context, analysis) ==
  assessmentOf(context, analysis.symptomInfo, analysis.sentiment, analysis.triage,
               analysis.emergencyCount)

\* generateSymptomAssessment: isNull tells that it returns null; ctx is the context object
\* after the call; emergencyCount and symptoms are its updates of the analytics object
generateSymptomAssessment(message, context) ==
  assessmentWith(context, messageAnalysis[message])

(***************************************************************************)
(* Response composer: generateResponse                                     *)
(***************************************************************************)

\* [...new Set([...a, ...b])]
RECURSIVE dedupe(_, _)
dedupe(arr, seen) ==
  IF Len(arr) = 0 THEN seen
  ELSE dedupe(Tail(arr), IF arrayIncludes(seen, arr[1]) THEN seen ELSE Append(seen, arr[1]))

\* the object generateResponse returns; path names the return statement that produced it
Result(response, quickActions, triage, aiEnhanced, path) ==
  [response |-> response, quickActions |-> quickActions, triage |-> triage,
   aiEnhanced |-> aiEnhanced, path |-> path]

\* the metadata object of a symptom branch
SymptomMetadata(context) ==
  [currentTopic |-> "symptom",
   askedDuration |-> context.askedDuration,
   askedSeverity |-> context.askedSeverity,
   askedOtherSymptoms |-> context.askedOtherSymptoms]

\* the metadata object written at the end of generateResponse
FullMetadata(context, intent) ==
  [currentTopic |-> intent,
   askedDuration |-> context.askedDuration,
   askedSeverity |-> context.askedSeverity,
   askedOtherSymptoms |-> context.askedOtherSymptoms,
   askedAppointmentType |-> context.askedAppointmentType,
   askedAppointmentDate |-> context.askedAppointmentDate,
   askedAppointmentReason |-> context.askedAppointmentReason,
   appointmentType |-> context.appointmentType,
   appointmentDate |-> context.appointmentDate,
   appointmentReason |-> context.appointmentReason]

\* the effect of a stretch of generateResponse that runs without interruption:
\*   ret      the returned object (path "await": suspended at the await of the AI call)
\*   ctx      the context object after the stretch
\*   saves    rows inserted by database.saveMessage, in order
\*   updates  metadata objects written by database.updateSession, in order
\*   profile  TRUE when database.saveProfile is called
\*   events   rows inserted by database.logEvent
\*   set      TRUE when sessions.set(sessionId, context) is called
\*   emergencyCount, symptoms   updates of the analytics object
\*   emits    io.emit calls
Effect(ret, ctx, saves, updates, profile, events, set, emergencyCount, symptoms, emits) ==
  [ret |-> ret, ctx |-> ctx, saves |-> saves, updates |-> updates, profile |-> profile,
   events |-> events, set |-> set, emergencyCount |-> emergencyCount, symptoms |-> symptoms,
   emits |-> emits]

quickActionsAI(intent) ==
  CASE intent = "greeting"    -> <<"Check Symptoms", "Schedule Appointment", "Wellness Tips">>
    [] intent = "help"        -> <<"Symptoms", "Appointments", "Medications", "Wellness">>
    [] intent = "appointment" -> <<"Book Now", "Find Doctor", "Check Availability">>
    [] intent = "medication"  -> <<"Find Pharmacy", "Contact Doctor">>
    [] intent = "wellness"    -> <<"Nutrition Tips", "Exercise Guide", "Sleep Advice">>
    [] OTHER                  -> <<"Get Help", "Find Doctor">>

\* the end of generateResponse, from "const finalResponse = response" on, for the context
\* c1 that already holds the bot message
finishWith(sessionId, c1, intent, response, quickActions, aiEnhanced) ==
  Effect(Result(response, quickActions, NoTriage, aiEnhanced, "standard"),
         c1,
         << MessageRow(sessionId, "bot", response, intent, NULL) >>,
         << FullMetadata(c1, intent) >>,
         Len(c1.userInfo.medications) > 0,
         <<>>, TRUE, 0, <<>>, <<>>)

finishStandard(sessionId, context, intent, response, quickActions, aiEnhanced) ==
  finishWith(sessionId, pushHistory(context, "bot", response), intent, response, quickActions,
             aiEnhanced)

\* the text of the symptom branch when the AI answered
enhancedResponse(assessment, interactionWarnings, aiResponse) ==
  (IF ~assessment.isNull /\ isHighUrgency(assessment.triage)
   THEN "[ALERT] **URGENCY: " \o assessment.triage.urgency \o "**\n\n" \o aiResponse
          \o "\n\n**Recommended Action:** " \o assessment.triage.action
   ELSE aiResponse)
  \o (IF Len(interactionWarnings) > 0 THEN "\n\n" \o join(interactionWarnings, "\n") ELSE "")
  \o "\n\n[!] For proper diagnosis and treatment, please consult with a healthcare professional."

\* a return statement of the symptom branch: stored is the text pushed to the history and
\* saved, returned is the text of the returned object
symptomReturn(sessionId, assessment, stored, returned, quickActions, updates, path) ==
  Effect(Result(returned, quickActions, assessment.triage, FALSE, path),
         pushHistory(assessment.ctx, "bot", stored),
         << MessageRow(sessionId, "bot", stored, "symptom",
                       IF assessment.isNull THEN NULL ELSE assessment.triage.triageLevel) >>,
         updates,
         FALSE, <<>>, TRUE, assessment.emergencyCount, assessment.symptoms, <<>>)

symptomEnhanced(sessionId, assessment, enhanced) ==
  symptomReturn(sessionId, assessment, enhanced, enhanced,
                <<"Schedule Appointment", "Find Doctor", "More Info">>,
                << SymptomMetadata(assessment.ctx) >>, "symptom_ai")

\* the general symptom answer returned without quick actions
symptomGeneralNoActions(sessionId, assessment, response) ==
  symptomReturn(sessionId, assessment, response, response, <<>>, <<>>, "symptom_general")

symptomGeneral(sessionId, assessment, response) ==
  symptomReturn(sessionId, assessment, response, response,
                <<"Schedule Appointment", "Find Doctor", "Tell Me More">>, <<>>, "symptom_general")

\* the symptom branch once the assessment is computed
symptomWith(sessionId, assessment, interactionWarnings, aiResponse, rnd) ==
  IF truthy(aiResponse)
  THEN symptomEnhanced(sessionId, assessment,
                       enhancedResponse(assessment, interactionWarnings, aiResponse))
  ELSE IF ~assessment.isNull
  THEN symptomReturn(sessionId, assessment, assessment.response,
                     assessment.response
                       \o (IF Len(interactionWarnings) > 0
                           THEN "\n\n" \o join(interactionWarnings, "\n") ELSE ""),
                     assessment.quickActions, << SymptomMetadata(assessment.ctx) >>, "symptom_rules")
  ELSE symptomGeneral(sessionId, assessment, pick(chatbotResponses["symptoms"], rnd))

\* the symptom branch
symptomBranch(userMessage, sessionId, context, interactionWarnings, aiResponse, rnd) ==
  symptomWith(sessionId, generateSymptomAssessment(userMessage, context), interactionWarnings,
              aiResponse, rnd)

\* a branch that only records the answer in the history and stores the context
simpleBranch(context, response, quickActions, path) ==
  Effect(Result(response, quickActions, NoTriage, FALSE, path),
         pushHistory(context, "bot", response),
         <<>>, <<>>, FALSE, <<>>, TRUE, 0, <<>>, <<>>)

\* case 'appointment' of the rule-based switch, once handleAppointmentFlow returned flow
appointmentCaseWith(sessionId, context, intent, flow, rnd) ==
  IF flow.ret # NullResult
  THEN Effect(Result(flow.ret.response, flow.ret.quickActions, NoTriage, FALSE, "appointment_case"),
              pushHistory(flow.ctx, "bot", flow.ret.response),
              flow.saves, flow.updates, FALSE, <<>>, TRUE, 0, <<>>, <<>>)
  ELSE finishStandard(sessionId, context, intent,
                      pick(chatbotResponses["appointment"], rnd),
                      <<"Book Now", "Find Doctor", "Check Availability">>, FALSE)

\* case 'appointment' of the rule-based switch
appointmentCase(userMessage, sessionId, context, intent, rnd) ==
  appointmentCaseWith(sessionId, context, intent,
                      handleAppointmentFlow(userMessage, context, sessionId, rnd), rnd)

\* the rule-based switch of the standard responses
ruleBased(userMessage, sessionId, context, intent, rnd) ==
  CASE intent = "greeting" ->
         finishStandard(sessionId, context, intent, pick(chatbotResponses["greeting"], rnd),
                        <<"Check Symptoms", "Schedule Appointment", "Wellness Tips">>, FALSE)
    [] intent = "goodbye" ->
         finishStandard(sessionId, context, intent, pick(chatbotResponses["goodbye"], rnd), <<>>, FALSE)
    [] intent = "help" ->
         finishStandard(sessionId, context, intent, pick(chatbotResponses["help"], rnd),
                        <<"Symptoms", "Appointments", "Medications", "Wellness">>, FALSE)
    [] intent = "appointment" ->
         appointmentCase(userMessage, sessionId, context, intent, rnd)
    [] intent = "medication" ->
         finishStandard(sessionId, context, intent, pick(chatbotResponses["medication"], rnd),
                        <<"Find Pharmacy", "Contact Doctor">>, FALSE)
    [] intent = "wellness" ->
         finishStandard(sessionId, context, intent, pick(chatbotResponses["wellness"], rnd),
                        <<"Nutrition Tips", "Exercise Guide", "Sleep Advice">>, FALSE)
    [] OTHER ->
         finishStandard(sessionId, context, intent,
                        IF Len(context.conversationHistory) > 2
                        THEN "I understand. Based on our conversation about " \o context.currentTopic
                               \o ", I'd recommend consulting with a healthcare professional for personalized advice. Is there anything specific you'd like to know more about?"
                        ELSE pick(chatbotResponses["default"], rnd),
                        <<"Get Help", "Find Doctor">>, FALSE)

\* the branches of generateResponse after the AI call, for the normalised message text, the
\* medications found in it, their interaction check, and the specialty and wellness
\* category the message names (NULL when none)
finishBranches(userMessage, sessionId, context, intent, interactionWarnings, aiResponse, rnd, medications, check, specialty, category) ==
  IF intent = "symptom"
  THEN symptomBranch(userMessage, sessionId, context, interactionWarnings, aiResponse, rnd)
  ELSE IF intent = "medication" /\ Len(medications) > 0 /\ Len(check.warnings) > 0
  THEN simpleBranch(context,
                    pick(chatbotResponses["medication"], rnd) \o "\n\n" \o join(check.warnings, "\n")
                      \o "\n\n[!] Always consult your pharmacist or doctor about medication interactions.",
                    <<"Find Pharmacy", "Contact Doctor">>, "medication_interactions")
  ELSE IF intent = "specialty" /\ specialty # NULL
  THEN simpleBranch(context,
                    "A " \o specialty \o " specialist focuses on " \o specialties[specialty]
                      \o ". Would you like help finding a " \o specialty
                      \o " specialist or scheduling an appointment?",
                    <<"Find Specialist", "Schedule Appointment">>, "specialty")
  ELSE IF intent = "wellness" /\ category # NULL
  THEN simpleBranch(context,
                    "Here are some " \o category \o " tips:\n\n" \o numbered(wellnessTips[category])
                      \o "\n\nWould you like more information about " \o category \o "?",
                    <<"More Tips", "Schedule Checkup">>, "wellness_tips")
  ELSE IF truthy(aiResponse)
  THEN finishStandard(sessionId, context, intent, aiResponse, quickActionsAI(intent), TRUE)
  ELSE ruleBased(userMessage, sessionId, context, intent, rnd)

finishChecked(userMessage, sessionId, context, intent, interactionWarnings, aiResponse, rnd, analysis) ==
  finishBranches(userMessage, sessionId, context, intent, interactionWarnings, aiResponse, rnd,
                 analysis.medications, checkMedicationInteractions(analysis.medications),
                 analysis.specialty, analysis.category)

\* generateResponse after the AI call: aiResponse is the text, or NULL when the call
\* returned null or was not made
generateResponseFinish(userMessage, sessionId, context, intent, interactionWarnings, aiResponse, rnd) ==
  finishChecked(userMessage, sessionId, context, intent, interactionWarnings, aiResponse, rnd,
                messageAnalysis[userMessage])

\* the appointment part of a context object
AppointmentState(context) ==
  [askedType   |-> context.askedAppointmentType,
   askedDate   |-> context.askedAppointmentDate,
   askedReason |-> context.askedAppointmentReason,
   type        |-> context.appointmentType,
   date        |-> context.appointmentDate,
   reason      |-> context.appointmentReason]

IdleState ==
  [askedType |-> FALSE, askedDate |-> FALSE, askedReason |-> FALSE,
   type |-> NULL, date |-> NULL, reason |-> NULL]

\* a lookup that hands every session the context object allocated first
lookupContextFirstObject(sessionId) ==
  IF sessionId \in DOMAIN sessions
  THEN [obj |-> 1, ctx |-> contexts[1], set |-> FALSE]
  ELSE [obj |-> Len(contexts) + 1, ctx |-> NewContext(sessionId), set |-> FALSE]

\* the context generateResponse works on: the object of the Map, or a new object built
\* from the database row, or a new empty object
lookupContext(sessionId) ==
  IF sessionId \in DOMAIN sessions
  THEN [obj |-> sessions[sessionId], ctx |-> contexts[sessions[sessionId]], set |-> FALSE]
  ELSE IF sessionId \in DOMAIN dbSessions
  THEN [obj |-> Len(contexts) + 1,
        ctx |-> HydratedContext(sessionId, dbSessions[sessionId], getMessages(dbMessages, sessionId)),
        set |-> TRUE]
  ELSE [obj |-> Len(contexts) + 1, ctx |-> NewContext(sessionId), set |-> FALSE]

AwaitResult == Result(NULL, <<>>, NoTriage, FALSE, "await")

\* the return of generateResponse with the object handleAppointmentFlow returned
flowReturn(flow, path) ==
  Effect(Result(flow.ret.response, flow.ret.quickActions, NoTriage, FALSE, path),
         flow.ctx, flow.saves, flow.updates, FALSE, <<>>, flow.set, 0, <<>>, <<>>)

\* the emergency check without the io.emit call
emergencyReturnNoAlert(userMessage, sessionId, c3, response) ==
  Effect(Result(response, <<"Call 911", "Find ER">>,
                [triageLevel |-> NULL, priority |-> 1, action |-> NULL, urgency |-> "CRITICAL"],
                FALSE, "emergency"),
         pushHistory(c3, "bot", response),
         << MessageRow(sessionId, "bot", response, "emergency", "emergency") >>,
         << [currentTopic |-> "emergency"] >>,
         FALSE,
         << [event_type |-> "emergency_detected", session_id |-> sessionId] >>,
         TRUE, 1, <<>>, <<>>)

\* the emergency check with the counter incremented twice
emergencyReturnCountedTwice(userMessage, sessionId, c3, response) ==
  Effect(Result(response, <<"Call 911", "Find ER">>,
                [triageLevel |-> NULL, priority |-> 1, action |-> NULL, urgency |-> "CRITICAL"],
                FALSE, "emergency"),
         pushHistory(c3, "bot", response),
         << MessageRow(sessionId, "bot", response, "emergency", "emergency") >>,
         << [currentTopic |-> "emergency"] >>,
         FALSE,
         << [event_type |-> "emergency_detected", session_id |-> sessionId] >>,
         TRUE, 2, <<>>,
         << [event |-> "emergency_alert", sessionId |-> sessionId, message |-> userMessage] >>)

\* the emergency check of generateResponse with the template it drew
emergencyReturn(userMessage, sessionId, c3, response) ==
  Effect(Result(response, <<"Call 911", "Find ER">>,
                [triageLevel |-> NULL, priority |-> 1, action |-> NULL, urgency |-> "CRITICAL"],
                FALSE, "emergency"),
         pushHistory(c3, "bot", response),
         << MessageRow(sessionId, "bot", response, "emergency", "emergency") >>,
         << [currentTopic |-> "emergency"] >>,
         FALSE,
         << [event_type |-> "emergency_detected", session_id |-> sessionId] >>,
         TRUE, 1, <<>>,
         << [event |-> "emergency_alert", sessionId |-> sessionId, message |-> userMessage] >>)

\* the emergency check placed before the two appointment checks
startRestEmergencyFirst(userMessage, sessionId, rnd, intent, interactionWarnings, c3, flow1, flow2) ==
  IF intent = "emergency"
  THEN emergencyReturn(userMessage, sessionId, c3, pick(chatbotResponses["emergency"], rnd))
  ELSE IF truthy(flow1.ret.response) THEN flowReturn(flow1, "appointment_flow")
  ELSE IF truthy(flow2.ret.response) THEN flowReturn(flow2, "appointment_trigger")
  ELSE IF aiAvailable
  THEN Effect(AwaitResult, c3, <<>>, <<>>, FALSE, <<>>, FALSE, 0, <<>>, <<>>)
  ELSE generateResponseFinish(userMessage, sessionId, c3, intent, interactionWarnings, NULL, rnd)

\* the AI call placed before the emergency check
startRestAIFirst(userMessage, sessionId, rnd, intent, interactionWarnings, c3, flow1, flow2) ==
  IF truthy(flow1.ret.response) THEN flowReturn(flow1, "appointment_flow")
  ELSE IF truthy(flow2.ret.response) THEN flowReturn(flow2, "appointment_trigger")
  ELSE IF aiAvailable
  THEN Effect(AwaitResult, c3, <<>>, <<>>, FALSE, <<>>, FALSE, 0, <<>>, <<>>)
  ELSE IF intent = "emergency"
  THEN emergencyReturn(userMessage, sessionId, c3, pick(chatbotResponses["emergency"], rnd))
  ELSE generateResponseFinish(userMessage, sessionId, c3, intent, interactionWarnings, NULL, rnd)

\* generateResponse from the appointment checks on: flow1 is the outcome of the check made
\* while a booking is open, flow2 the outcome of the check made for a trigger phrase
startRest(userMessage, sessionId, rnd, intent, interactionWarnings, c3, flow1, flow2) ==
  IF truthy(flow1.ret.response) THEN flowReturn(flow1, "appointment_flow")
  ELSE IF truthy(flow2.ret.response) THEN flowReturn(flow2, "appointment_trigger")
  ELSE IF intent = "emergency"
  THEN emergencyReturn(userMessage, sessionId, c3, pick(chatbotResponses["emergency"], rnd))
  ELSE IF aiAvailable
  THEN Effect(AwaitResult, c3, <<>>, <<>>, FALSE, <<>>, FALSE, 0, <<>>, <<>>)
  ELSE generateResponseFinish(userMessage, sessionId, c3, intent, interactionWarnings, NULL, rnd)

\* the saveMessage and logEvent of the user message come first, and the Map holds the
\* context when it was loaded from the database
startEffect(userMessage, sessionId, intent, rest, hydrated) ==
  [rest EXCEPT !.saves = << MessageRow(sessionId, "user", userMessage, intent, NULL) >> \o @,
               !.events = << [event_type |-> "user_message", session_id |-> sessionId] >> \o @,
               !.set = @ \/ hydrated]

\* the first appointment check made on every message, also outside a booking
startRecordedUnguarded(userMessage, sessionId, rnd, found, intent, interactionWarnings, c3, message) ==
  [obj    |-> found.obj,
   intent |-> intent,
   interactionWarnings |-> interactionWarnings,
   eff    |-> startEffect(userMessage, sessionId, intent,
                startRest(userMessage, sessionId, rnd, intent, interactionWarnings, c3,
                          handleAppointmentFlow(userMessage, c3, sessionId, rnd),
                          IF arrayIncludes(bookingTriggers, message) /\ intent = "appointment"
                          THEN handleAppointmentFlow(userMessage, c3, sessionId, rnd)
                          ELSE FlowNone(c3)),
                found.set)]

\* generateResponse once the user message is recorded in the context c3
startRecorded(userMessage, sessionId, rnd, found, intent, interactionWarnings, c3, message) ==
  [obj    |-> found.obj,
   intent |-> intent,
   interactionWarnings |-> interactionWarnings,
   eff    |-> startEffect(userMessage, sessionId, intent,
                startRest(userMessage, sessionId, rnd, intent, interactionWarnings, c3,
                          IF c3.askedAppointmentType \/ c3.askedAppointmentDate
                               \/ c3.askedAppointmentReason
                          THEN handleAppointmentFlow(userMessage, c3, sessionId, rnd)
                          ELSE FlowNone(c3),
                          IF arrayIncludes(bookingTriggers, message) /\ intent = "appointment"
                          THEN handleAppointmentFlow(userMessage, c3, sessionId, rnd)
                          ELSE FlowNone(c3)),
                found.set)]

\* generateResponse once the medications of the message are merged into the context c2
startMerged(userMessage, sessionId, rnd, found, intent, c2) ==
  startRecorded(userMessage, sessionId, rnd, found, intent,
                IF Len(c2.userInfo.medications) > 1
                THEN checkMedicationInteractions(c2.userInfo.medications).warnings
                ELSE <<>>,
                [pushHistory(c2, "user", userMessage) EXCEPT !.currentTopic = intent],
                messageAnalysis[userMessage].message)

\* generateResponse once the context c1 is found and carries its session id
startFound(userMessage, sessionId, rnd, found, intent, c1, medications) ==
  startMerged(userMessage, sessionId, rnd, found, intent,
              IF Len(medications) > 0
              THEN [c1 EXCEPT !.userInfo.medications = dedupe(@ \o medications, <<>>)]
              ELSE c1)

startLookedUp(userMessage, sessionId, rnd, found) ==
  startFound(userMessage, sessionId, rnd, found, messageAnalysis[userMessage].intent,
             IF truthy(found.ctx.sessionId) THEN found.ctx
             ELSE [found.ctx EXCEPT !.sessionId = sessionId],
             messageAnalysis[userMessage].medications)

\* generateResponse from its first line to the await of the AI call, or to its return
\* when it returns before, or to its end when the AI service is not available
generateResponseStart(userMessage, sessionId, rnd) ==
  startLookedUp(userMessage, sessionId, rnd, lookupContext(sessionId))

(***************************************************************************)
(* Applying an effect to the state                                         *)
(***************************************************************************)

\* Map.prototype.set, and a row insert or replace
Put(f, k, v) == [x \in DOMAIN f \cup {k} |-> IF x = k THEN v ELSE f[x]]

\* object[key] = (object[key] || 0) + n
Bump(f, k, n) == Put(f, k, (IF k \in DOMAIN f THEN f[k] ELSE 0) + n)

RECURSIVE BumpAll(_, _)
BumpAll(f, keys) == IF Len(keys) = 0 THEN f ELSE BumpAll(Bump(f, keys[1], 1), Tail(keys))

\* database.updateSession for each metadata object of updates: the row, when it exists,
\* gets the user info and the last metadata object
updatedSessions(rows, sessionId, userInfo, updates) ==
  IF Len(updates) > 0 /\ sessionId \in DOMAIN rows
  THEN Put(rows, sessionId, [userInfo |-> userInfo, metadata |-> updates[Len(updates)]])
  ELSE rows

\* what the stretch with effect eff does to the process: the context object obj, the
\* Map of the sessions, the events emitted and the counters
ApplyInMemory(sessionId, obj, eff, intent, countMessage) ==
  /\ contexts' = IF obj > Len(contexts) THEN Append(contexts, eff.ctx)
                 ELSE [contexts EXCEPT ![obj] = eff.ctx]
  /\ sessions' = IF eff.set THEN Put(sessions, sessionId, obj) ELSE sessions
  /\ emitted' = emitted \o eff.emits
  /\ analytics' =
       [analytics EXCEPT
          !.totalMessages = @ + (IF countMessage THEN 1 ELSE 0),
          !.intentDistribution = IF countMessage THEN Bump(@, intent, 1) ELSE @,
          !.emergencyCount = @ + eff.emergencyCount,
          !.symptomFrequency = BumpAll(@, eff.symptoms)]

\* what the stretch with effect eff writes to the database
ApplyToStore(sessionId, eff) ==
  /\ dbMessages' = dbMessages \o eff.saves
  /\ dbSessions' = updatedSessions(dbSessions, sessionId, eff.ctx.userInfo, eff.updates)
  /\ dbProfiles' = IF eff.profile
                   THEN Put(dbProfiles, sessionId, [medications |-> eff.ctx.userInfo.medications,
                                                    symptoms |-> <<>>])
                   ELSE dbProfiles
  /\ dbEvents' = dbEvents \o eff.events

\* the state after the stretch with effect eff has run on the context object obj
ApplyEffect(sessionId, obj, eff, intent, countMessage) ==
  /\ ApplyInMemory(sessionId, obj, eff, intent, countMessage)
  /\ ApplyToStore(sessionId, eff)

\* res.json / res.status(..).json of /api/chat; before, after, aiInvoked and emits record
\* what the turn did: the appointment state of the context at the start of
\* generateResponse and at the response, whether the AI call was made, and the number of
\* io.emit calls made since the request was accepted
Response(status, sessionId, message, result, conversationLength, before, after, aiInvoked, emits) ==
  [status |-> status, sessionId |-> sessionId, message |-> message,
   response |-> result.response, quickActions |-> result.quickActions,
   triage |-> result.triage, aiEnhanced |-> result.aiEnhanced, path |-> result.path,
   conversationLength |-> conversationLength,
   before |-> before, after |-> after, aiInvoked |-> aiInvoked, emits |-> emits]

\* the answer to the request r once generateResponse has returned with effect eff
SendResponse(r, obj, eff, before, aiInvoked) ==
  /\ responses' = Append(responses,
                         Response(IF truthy(eff.ret.response) THEN 200 ELSE 500,
                                  inflight[r].sessionId, inflight[r].message, eff.ret,
                                  IF inflight[r].sessionId \in DOMAIN sessions'
                                  THEN Len(contexts'[sessions'[inflight[r].sessionId]].conversationHistory)
                                  ELSE 0,
                                  before, AppointmentState(eff.ctx), aiInvoked,
                                  Len(emitted') - inflight[r].emitted))
  /\ inflight' = [x \in DOMAIN inflight \ {r} |-> inflight[x]]

(***************************************************************************)
(* Operations                                                              *)
(***************************************************************************)

\* a limit that lets the request through when the count has just reached the maximum
rateLimitDecisionInclusive(sessionId, stored, limits) ==
  [allowed |-> limits.count <= RATE_LIMIT_MAX_REQUESTS,
   map     |-> IF limits.count <= RATE_LIMIT_MAX_REQUESTS
               THEN Put(rateLimits, sessionId, [limits EXCEPT !.count = @ + 1])
               ELSE IF stored THEN Put(rateLimits, sessionId, limits)
               ELSE rateLimits]

\* the end of checkRateLimit for the entry limits of the session (after the window reset)
rateLimitDecision(sessionId, stored, limits) ==
  [allowed |-> limits.count < RATE_LIMIT_MAX_REQUESTS,
   map     |-> IF limits.count < RATE_LIMIT_MAX_REQUESTS
               THEN Put(rateLimits, sessionId, [limits EXCEPT !.count = @ + 1])
               ELSE IF stored THEN Put(rateLimits, sessionId, limits)
               ELSE rateLimits]

rateLimitWindow(sessionId, stored, limits) ==
  rateLimitDecision(sessionId, stored,
                    IF now > limits.resetTime
                    THEN [count |-> 0, resetTime |-> now + RATE_LIMIT_WINDOW]
                    ELSE limits)

\* checkRateLimit(sessionId): whether the request is allowed, and the Map afterwards
checkRateLimit(sessionId) ==
  rateLimitWindow(sessionId, sessionId \in DOMAIN rateLimits,
                  IF sessionId \in DOMAIN rateLimits THEN rateLimits[sessionId]
                  ELSE [count |-> 0, resetTime |-> now + RATE_LIMIT_WINDOW])

\* a response of /api/chat that carries an error instead of an answer
ErrorResponse(status, sessionId, message) ==
  Response(status, sessionId, message, Result(NULL, <<>>, NoTriage, FALSE, "error"), 0,
           IdleState, IdleState, FALSE, 0)

\* requests of /api/chat received so far
RequestCount == Len(responses) + Cardinality(DOMAIN inflight)

\* app.post('/api/chat') from the rate limit check on, limit being its outcome
ChatAccepted(sessionId, message, limit) ==
  /\ rateLimits' = limit.map
  /\ IF ~limit.allowed
     THEN /\ responses' = Append(responses, ErrorResponse(429, sessionId, message))
          /\ UNCHANGED <<contexts, sessions, now, analytics, aiAvailable, dbSessions,
                         dbMessages, dbEvents, dbProfiles, emitted, inflight>>
     ELSE /\ IF sessionId \notin DOMAIN sessions
             THEN /\ contexts' = Append(contexts, NewContext(sessionId))
                  /\ sessions' = Put(sessions, sessionId, Len(contexts) + 1)
                  /\ dbSessions' =
                       IF sessionId \in DOMAIN dbSessions THEN dbSessions
                       ELSE Put(dbSessions, sessionId,
                                [userInfo |-> [medications |-> <<>>],
                                 metadata |-> FullMetadata(NewContext(sessionId), NULL)])
                  /\ dbEvents' = Append(dbEvents, [event_type |-> "session_created",
                                                   session_id |-> sessionId])
                  /\ analytics' = [analytics EXCEPT !.totalConversations = @ + 1]
             ELSE UNCHANGED <<contexts, sessions, dbSessions, dbEvents, analytics>>
          /\ inflight' = Put(inflight, RequestCount + 1,
                             [pc |-> "timer", sessionId |-> sessionId, message |-> message,
                              obj |-> 0, intent |-> NULL, interactionWarnings |-> <<>>,
                              before |-> IdleState, emitted |-> Len(emitted)])
          /\ UNCHANGED <<now, aiAvailable, dbMessages, dbProfiles, emitted, responses>>

\* a handler that would check the rate limit before it looks at the message
ChatRequestLimitedFirst(sessionId, message) ==
  /\ RequestCount < MaxTurns
  /\ UNCHANGED <<triageCall, directCall>>
  /\ IF ~truthy(message) \/ trim(message) = ""
     THEN /\ responses' = Append(responses, ErrorResponse(400, NULL, message))
          /\ rateLimits' = checkRateLimit(sessionId).map
          /\ UNCHANGED <<contexts, sessions, now, analytics, aiAvailable, dbSessions,
                         dbMessages, dbEvents, dbProfiles, emitted, inflight>>
     ELSE ChatAccepted(sessionId, message, checkRateLimit(sessionId))

\* app.post('/api/chat') up to the call of setTimeout
ChatRequest(sessionId, message) ==
  /\ RequestCount < MaxTurns
  /\ UNCHANGED <<triageCall, directCall>>
  /\ IF ~truthy(message) \/ trim(message) = ""
     THEN /\ responses' = Append(responses, ErrorResponse(400, NULL, message))
          /\ UNCHANGED <<contexts, sessions, rateLimits, now, analytics, aiAvailable, dbSessions,
                         dbMessages, dbEvents, dbProfiles, emitted, inflight>>
     ELSE ChatAccepted(sessionId, message, checkRateLimit(sessionId))

\* the setTimeout callback once generateResponse has run up to the await or to its
\* return with outcome g; before is the appointment state it found
TimerReply(r, before, g) ==
  IF g.eff.ret.path = "await"
  THEN /\ inflight' = [inflight EXCEPT ![r].pc = "await", ![r].obj = g.obj,
                                       ![r].intent = g.intent,
                                       ![r].interactionWarnings = g.interactionWarnings,
                                       ![r].before = before]
       /\ UNCHANGED responses
  ELSE SendResponse(r, g.obj, g.eff, before, FALSE)

\* the setTimeout callback with the writes of the stretch made
TimerOutcome(r, sessionId, before, g) ==
  /\ ApplyEffect(sessionId, g.obj, g.eff, g.intent, TRUE)
  /\ TimerReply(r, before, g)

\* the setTimeout callback of /api/chat: generateResponse runs up to the await of the AI
\* call, or to its return; when it returns the response is sent
GenerateResponse(r, rnd) ==
  /\ r \in DOMAIN inflight
  /\ inflight[r].pc = "timer"
  /\ TimerOutcome(r, inflight[r].sessionId,
                  AppointmentState(lookupContext(inflight[r].sessionId).ctx),
                  generateResponseStart(inflight[r].message, inflight[r].sessionId, rnd))
  /\ UNCHANGED <<rateLimits, now, aiAvailable, triageCall, directCall>>

\* the continuation of generateResponse after the await, with effect eff
AIOutcome(r, req, eff) ==
  /\ ApplyEffect(req.sessionId, req.obj, eff, req.intent, FALSE)
  /\ SendResponse(r, req.obj, eff, req.before, TRUE)

\* aiService.generateAIResponse resolves to aiResponse and generateResponse runs to its end
AIResolve(r, aiResponse, rnd) ==
  /\ r \in DOMAIN inflight
  /\ inflight[r].pc = "await"
  /\ AIOutcome(r, inflight[r],
               generateResponseFinish(inflight[r].message, inflight[r].sessionId,
                                      contexts[inflight[r].obj], inflight[r].intent,
                                      inflight[r].interactionWarnings, aiResponse, rnd))
  /\ UNCHANGED <<rateLimits, now, aiAvailable, triageCall, directCall>>

(***************************************************************************)
(* Specification: one client per session that waits for each answer        *)
(***************************************************************************)

EmptyMap == [x \in {} |-> 0]

\* no direct call of performTriage is made
NoCall == [message |-> NULL, symptomInfo |-> [symptoms |-> <<>>, duration |-> NULL, severity |-> NULL],
           result |-> NoTriage]

\* the server after start-up: empty Maps, empty tables, counters at zero
InitServer ==
  /\ contexts = <<>>
  /\ sessions = EmptyMap
  /\ rateLimits = EmptyMap
  /\ now = 0
  /\ analytics = [totalConversations |-> 0, totalMessages |-> 0, intentDistribution |-> EmptyMap,
                  symptomFrequency |-> EmptyMap, emergencyCount |-> 0]
  /\ aiAvailable \in BOOLEAN
  /\ dbSessions = EmptyMap
  /\ dbMessages = <<>>
  /\ dbEvents = <<>>
  /\ dbProfiles = EmptyMap
  /\ emitted = <<>>
  /\ inflight = EmptyMap
  /\ responses = <<>>

\* no direct call of checkMedicationInteractions or detectIntent is made
NoDirectCall ==
  [fn |-> NULL, arg |-> <<>>, returned |-> FALSE, intent |-> NULL,
   check |-> [interactions |-> <<>>, warnings |-> <<>>], flow |-> <<>>]

Init == InitServer /\ triageCall = NoCall /\ directCall = NoDirectCall

\* a chat request sent when no other request is in flight
SerialChatRequest ==
  \E sessionId \in SessionIds, message \in Messages :
    DOMAIN inflight = {} /\ ChatRequest(sessionId, message)

TimerFires == \E r \in DOMAIN inflight, rnd \in RandomDraws : GenerateResponse(r, rnd)

AIReturns ==
  \E r \in DOMAIN inflight, aiResponse \in AIOutcomes, rnd \in RandomDraws :
    AIResolve(r, aiResponse, rnd)

Next == SerialChatRequest \/ TimerFires \/ AIReturns

Spec == Init /\ [][Next]_vars

(***************************************************************************)
(* Specification: one client that asks about symptoms and medications      *)
(***************************************************************************)

CareChatRequest ==
  \E sessionId \in SessionIds, message \in CareMessages :
    DOMAIN inflight = {} /\ RequestCount < MaxCareTurns /\ ChatRequest(sessionId, message)

CareSpec == Init /\ [][CareChatRequest \/ TimerFires \/ AIReturns]_vars

(***************************************************************************)
(* Specification: one session whose client does not wait for the answers   *)
(***************************************************************************)

\* chat requests accepted in one behaviour of the client that does not wait
MaxConcurrentTurns == 2

\* a chat request of the session sent at any time, also while others are in flight
ConcurrentChatRequest ==
  \E sessionId \in SessionIds, message \in Messages :
    RequestCount < MaxConcurrentTurns /\ ChatRequest(sessionId, message)

ConcurrentSpec == Init /\ [][ConcurrentChatRequest \/ TimerFires \/ AIReturns]_vars

(***************************************************************************)
(* Specification: two sessions, each with a client that waits for its      *)
(* answer, running in parallel                                             *)
(***************************************************************************)

\* chat requests accepted in one behaviour of the two clients together
MaxParallelTurns == 3

\* a chat request of one of two sessions, sent when that session has no request in flight
ParallelChatRequest ==
  \E sessionId \in {"session_1", "session_2"},
     message \in {"Book Now", "I have a headache"} :
    /\ \A r \in DOMAIN inflight : inflight[r].sessionId # sessionId
    /\ RequestCount < MaxParallelTurns
    /\ ChatRequest(sessionId, message)

ParallelSpec == Init /\ [][ParallelChatRequest \/ TimerFires \/ AIReturns]_vars

(***************************************************************************)
(* Specification: two sessions whose clients send at any time, also empty  *)
(* messages and messages that speak of an emergency                        *)
(***************************************************************************)

\* chat requests received in one behaviour of these clients
MaxOpenTurns == 3

\* a chat request of either session, sent at any time: an empty body, a body of blanks, a
\* booking trigger, a message of emergency intent, and a symptom message in which
\* performTriage finds an emergency keyword
OpenChatRequest ==
  \E sessionId \in {"session_1", "session_2"},
     message \in {"", "   ", "Book Now", "I have severe chest pain",
                  "I have chest pains and a fever"} :
    RequestCount < MaxOpenTurns /\ ChatRequest(sessionId, message)

OpenSpec == Init /\ [][OpenChatRequest \/ TimerFires \/ AIReturns]_vars

(***************************************************************************)
(* Specification: a session whose entry is cleared from the Map, and a     *)
(* server that is restarted                                                *)
(***************************************************************************)

\* chat requests accepted in one behaviour with clearing and restarts
MaxStoreTurns == 3

\* app.post('/api/clear-session'): the entry of the Map is deleted, the tables are kept;
\* for an id the Map does not hold the request changes nothing
ClearSession ==
  \E sessionId \in SessionIds :
    /\ sessionId \in DOMAIN sessions
    /\ sessions' = [s \in DOMAIN sessions \ {sessionId} |-> sessions[s]]
    /\ UNCHANGED <<contexts, rateLimits, now, analytics, aiAvailable, dbSessions, dbMessages,
                   dbEvents, dbProfiles, emitted, inflight, responses, triageCall, directCall>>

\* syncSessionsFromDB(): one context object per row of the table sessions, built from the
\* row and its messages and put into the Map; synced is [contexts, sessions] so far
RECURSIVE syncSessionsFromDB(_, _)
syncSessionsFromDB(ids, synced) ==
  IF ids = {} THEN synced
  ELSE LET id == CHOOSE x \in ids : TRUE
       IN  syncSessionsFromDB(
             ids \ {id},
             [contexts |-> Append(synced.contexts,
                                  HydratedContext(id, dbSessions[id],
                                                  getMessages(dbMessages, id))),
              sessions |-> Put(synced.sessions, id, Len(synced.contexts) + 1)])

\* the process is stopped while no request is in flight and started again: the objects,
\* the Maps and the analytics object of the old process are gone, the tables are kept,
\* and the start-up code runs syncSessionsFromDB
Restart ==
  /\ DOMAIN inflight = {}
  /\ contexts' = syncSessionsFromDB(DOMAIN dbSessions, [contexts |-> <<>>, sessions |-> EmptyMap]).contexts
  /\ sessions' = syncSessionsFromDB(DOMAIN dbSessions, [contexts |-> <<>>, sessions |-> EmptyMap]).sessions
  /\ rateLimits' = EmptyMap
  /\ analytics' = [totalConversations |-> 0, totalMessages |-> 0, intentDistribution |-> EmptyMap,
                   symptomFrequency |-> EmptyMap, emergencyCount |-> 0]
  /\ UNCHANGED <<now, aiAvailable, dbSessions, dbMessages, dbEvents, dbProfiles, emitted,
                 inflight, responses, triageCall, directCall>>

\* a chat request sent when no other request is in flight: a booking trigger, a symptom
\* message and a message of emergency intent
StoreChatRequest ==
  \E sessionId \in SessionIds,
     message \in {"Book Now", "I have a headache", "I have severe chest pain"} :
    DOMAIN inflight = {} /\ RequestCount < MaxStoreTurns /\ ChatRequest(sessionId, message)

StoreSpec == Init /\ [][StoreChatRequest \/ TimerFires \/ AIReturns \/ ClearSession \/ Restart]_vars

(***************************************************************************)
(* Specification with fairness: the timer of an accepted request fires.    *)
(* Nothing in the code bounds the wait for the AI service, so its answer   *)
(* is not assumed                                                          *)
(***************************************************************************)

LiveSpec == Spec /\ WF_vars(TimerFires)

(***************************************************************************)
(* Specification: a server on which the composition of a turn may throw    *)
(***************************************************************************)

\* chat requests received in one behaviour of the server with faults
MaxFaultTurns == 3

\* the catch block of the setTimeout callback without the session id in its answer
TurnFailsWithoutSessionId(r) ==
  /\ responses' = Append(responses, ErrorResponse(500, NULL, inflight[r].message))
  /\ inflight' = [x \in DOMAIN inflight \ {r} |-> inflight[x]]

\* the catch block of the setTimeout callback: the apology, with the session id
TurnFails(r) ==
  /\ responses' = Append(responses, ErrorResponse(500, inflight[r].sessionId, inflight[r].message))
  /\ inflight' = [x \in DOMAIN inflight \ {r} |-> inflight[x]]

\* generateResponse throws at its first statement
ThrowsAtEntry(r) ==
  /\ r \in DOMAIN inflight
  /\ inflight[r].pc = "timer"
  /\ TurnFails(r)
  /\ UNCHANGED <<contexts, sessions, rateLimits, now, analytics, aiAvailable, dbSessions,
                 dbMessages, dbEvents, dbProfiles, emitted, triageCall, directCall>>

\* the state after generateResponse has run with outcome g and thrown at its last statement
ThrownOutcome(r, sessionId, g) ==
  /\ ApplyEffect(sessionId, g.obj, g.eff, g.intent, TRUE)
  /\ TurnFails(r)

\* generateResponse throws at the end of its first stretch: at the await of the AI call
\* when the service is available, and at its return statement otherwise
ThrowsAfterStart(r, rnd) ==
  /\ r \in DOMAIN inflight
  /\ inflight[r].pc = "timer"
  /\ ThrownOutcome(r, inflight[r].sessionId,
                   generateResponseStart(inflight[r].message, inflight[r].sessionId, rnd))
  /\ UNCHANGED <<rateLimits, now, aiAvailable, triageCall, directCall>>

\* the state after the continuation of generateResponse has run with effect eff and thrown
ThrownAfterAI(r, req, eff) ==
  /\ ApplyEffect(req.sessionId, req.obj, eff, req.intent, FALSE)
  /\ TurnFails(r)

\* generateResponse throws at its return statement after the AI call
ThrowsAfterFinish(r, aiResponse, rnd) ==
  /\ r \in DOMAIN inflight
  /\ inflight[r].pc = "await"
  /\ ThrownAfterAI(r, inflight[r],
                   generateResponseFinish(inflight[r].message, inflight[r].sessionId,
                                          contexts[inflight[r].obj], inflight[r].intent,
                                          inflight[r].interactionWarnings, aiResponse, rnd))
  /\ UNCHANGED <<rateLimits, now, aiAvailable, triageCall, directCall>>

TimerThrowsAtEntry == \E r \in DOMAIN inflight : ThrowsAtEntry(r)

TimerThrows == \E r \in DOMAIN inflight, rnd \in RandomDraws : ThrowsAfterStart(r, rnd)

AIContinuationThrows ==
  \E r \in DOMAIN inflight, aiResponse \in AIOutcomes, rnd \in RandomDraws :
    ThrowsAfterFinish(r, aiResponse, rnd)

\* one client that waits for each answer, or apology, before it sends the next message
FaultChatRequest ==
  \E sessionId \in SessionIds, message \in {"Book Now", "Tomorrow", "I have a headache"} :
    DOMAIN inflight = {} /\ RequestCount < MaxFaultTurns /\ ChatRequest(sessionId, message)

FaultSpec ==
  Init /\ [][FaultChatRequest \/ TimerFires \/ AIReturns \/ TimerThrowsAtEntry \/ TimerThrows
               \/ AIContinuationThrows]_vars

(***************************************************************************)
(* Specification: a server whose database calls may fail.  Every wrapper   *)
(* of database.js catches the error: a write returns false, getSession     *)
(* returns null and getMessages returns []                                 *)
(***************************************************************************)

\* chat requests received in one behaviour of the server with a failing database
MaxDownTurns == 2

\* the context generateResponse works on when the read named failed fails
lookupContextReadFails(sessionId, failed) ==
  IF sessionId \in DOMAIN sessions
  THEN [obj |-> sessions[sessionId], ctx |-> contexts[sessions[sessionId]], set |-> FALSE]
  ELSE IF sessionId \in DOMAIN dbSessions /\ failed # "getSession"
  THEN [obj |-> Len(contexts) + 1,
        ctx |-> HydratedContext(sessionId, dbSessions[sessionId], <<>>),
        set |-> TRUE]
  ELSE [obj |-> Len(contexts) + 1, ctx |-> NewContext(sessionId), set |-> FALSE]

\* app.post('/api/chat') for a new session when createSession and logEvent fail
CreateSessionFails(sessionId, message) ==
  /\ RequestCount < MaxTurns
  /\ truthy(message) /\ trim(message) # ""
  /\ checkRateLimit(sessionId).allowed
  /\ sessionId \notin DOMAIN sessions
  /\ rateLimits' = checkRateLimit(sessionId).map
  /\ contexts' = Append(contexts, NewContext(sessionId))
  /\ sessions' = Put(sessions, sessionId, Len(contexts) + 1)
  /\ analytics' = [analytics EXCEPT !.totalConversations = @ + 1]
  /\ inflight' = Put(inflight, RequestCount + 1,
                     [pc |-> "timer", sessionId |-> sessionId, message |-> message,
                      obj |-> 0, intent |-> NULL, interactionWarnings |-> <<>>,
                      before |-> IdleState, emitted |-> Len(emitted)])
  /\ UNCHANGED <<now, aiAvailable, dbSessions, dbMessages, dbEvents, dbProfiles, emitted,
                 responses, triageCall, directCall>>

\* a setTimeout callback that gives up with the apology when a write of the stretch fails
TimerWritesFailAborts(r, sessionId, before, g) ==
  /\ ApplyInMemory(sessionId, g.obj, g.eff, g.intent, TRUE)
  /\ UNCHANGED <<dbMessages, dbSessions, dbProfiles, dbEvents>>
  /\ TurnFails(r)

\* the setTimeout callback when every write of the stretch fails
TimerWritesFail(r, sessionId, before, g) ==
  /\ ApplyInMemory(sessionId, g.obj, g.eff, g.intent, TRUE)
  /\ UNCHANGED <<dbMessages, dbSessions, dbProfiles, dbEvents>>
  /\ TimerReply(r, before, g)

GenerateResponseWritesFail(r, rnd) ==
  /\ r \in DOMAIN inflight
  /\ inflight[r].pc = "timer"
  /\ TimerWritesFail(r, inflight[r].sessionId,
                     AppointmentState(lookupContext(inflight[r].sessionId).ctx),
                     generateResponseStart(inflight[r].message, inflight[r].sessionId, rnd))
  /\ UNCHANGED <<rateLimits, now, aiAvailable, triageCall, directCall>>

\* the setTimeout callback when the session is not in the Map and the read named failed
\* fails
GenerateResponseReadFails(r, rnd, failed) ==
  /\ r \in DOMAIN inflight
  /\ inflight[r].pc = "timer"
  /\ inflight[r].sessionId \notin DOMAIN sessions
  /\ TimerOutcome(r, inflight[r].sessionId,
                  AppointmentState(lookupContextReadFails(inflight[r].sessionId, failed).ctx),
                  startLookedUp(inflight[r].message, inflight[r].sessionId, rnd,
                                lookupContextReadFails(inflight[r].sessionId, failed)))
  /\ UNCHANGED <<rateLimits, now, aiAvailable, triageCall, directCall>>

\* the continuation of generateResponse after the await when every write fails
AIWritesFail(r, req, eff) ==
  /\ ApplyInMemory(req.sessionId, req.obj, eff, req.intent, FALSE)
  /\ UNCHANGED <<dbMessages, dbSessions, dbProfiles, dbEvents>>
  /\ SendResponse(r, req.obj, eff, req.before, TRUE)

AIResolveWritesFail(r, aiResponse, rnd) ==
  /\ r \in DOMAIN inflight
  /\ inflight[r].pc = "await"
  /\ AIWritesFail(r, inflight[r],
                  generateResponseFinish(inflight[r].message, inflight[r].sessionId,
                                         contexts[inflight[r].obj], inflight[r].intent,
                                         inflight[r].interactionWarnings, aiResponse, rnd))
  /\ UNCHANGED <<rateLimits, now, aiAvailable, triageCall, directCall>>

DownMessages == {"Book Now", "I have a headache"}

DownChatRequest ==
  \E sessionId \in SessionIds, message \in DownMessages :
    DOMAIN inflight = {} /\ RequestCount < MaxDownTurns /\ ChatRequest(sessionId, message)

DownCreateSessionFails ==
  \E sessionId \in SessionIds, message \in DownMessages :
    DOMAIN inflight = {} /\ RequestCount < MaxDownTurns /\ CreateSessionFails(sessionId, message)

TimerFiresWritesFail ==
  \E r \in DOMAIN inflight, rnd \in RandomDraws : GenerateResponseWritesFail(r, rnd)

TimerFiresReadFails ==
  \E r \in DOMAIN inflight, rnd \in RandomDraws, failed \in {"getSession", "getMessages"} :
    GenerateResponseReadFails(r, rnd, failed)

AIReturnsWritesFail ==
  \E r \in DOMAIN inflight, aiResponse \in AIOutcomes, rnd \in RandomDraws :
    AIResolveWritesFail(r, aiResponse, rnd)

DownSpec ==
  Init /\ [][DownChatRequest \/ DownCreateSessionFails \/ TimerFires \/ TimerFiresWritesFail
               \/ TimerFiresReadFails \/ AIReturns \/ AIReturnsWritesFail \/ ClearSession]_vars

(***************************************************************************)
(* Specification: clients that send many messages while time passes, to a  *)
(* server without AI service                                               *)
(***************************************************************************)

\* chat requests received in one behaviour of the server under load
MaxRateRequests == 33

\* the clock is read at multiples of TickStep milliseconds, MaxTicks times at most
TickStep == 20000

MaxTicks == 4

RateInit == InitServer /\ ~aiAvailable /\ triageCall = NoCall /\ directCall = NoDirectCall

\* a chat request with a message that is not blank, sent when no other is in flight; the
\* client of session_1 sends any number of them, the client of session_2 sends one
RateChatRequest ==
  \E sessionId \in {"session_1", "session_2"} :
    /\ DOMAIN inflight = {}
    /\ sessionId = "session_2" => sessionId \notin DOMAIN sessions
    /\ RequestCount < MaxRateRequests
    /\ ChatAccepted(sessionId, "I have a headache", checkRateLimit(sessionId))
    /\ UNCHANGED <<triageCall, directCall>>

\* time passes
Tick ==
  /\ now < MaxTicks * TickStep
  /\ now' = now + TickStep
  /\ UNCHANGED <<contexts, sessions, rateLimits, analytics, aiAvailable, dbSessions, dbMessages,
                 dbEvents, dbProfiles, emitted, inflight, responses, triageCall, directCall>>

RateSpec == RateInit /\ [][RateChatRequest \/ TimerFires \/ Tick]_vars

(***************************************************************************)
(* Specification: a client that clears its session and reads it back with  *)
(* the history and export endpoints                                        *)
(***************************************************************************)

\* chat requests received in one behaviour of the server whose sessions are read back
MaxClearTurns == 2

\* the answer of a read endpoint, kept in directCall: its status and the turns it returns
ReadAnswer(fn, sessionId, status, turns) ==
  [fn |-> fn, arg |-> <<sessionId>>, returned |-> TRUE, intent |-> NULL,
   check |-> NoDirectCall.check,
   flow |-> <<[status |-> status, conversationHistory |-> turns]>>]

\* the turns of the rows of the table messages, as the export endpoint maps them
exportedRows(messages) ==
  [n \in 1..Len(messages) |-> [role |-> messages[n].role, message |-> messages[n].message]]

\* an export endpoint that reads the Map of the sessions only
exportFromMapOnly(sessionId) ==
  IF sessionId \in DOMAIN sessions
  THEN ReadAnswer("export", sessionId, 200, contexts[sessions[sessionId]].conversationHistory)
  ELSE ReadAnswer("export", sessionId, 404, <<>>)

\* app.get('/api/export/:sessionId'): the context of the Map, or the rows of the database
export(sessionId) ==
  IF sessionId \in DOMAIN sessions
  THEN ReadAnswer("export", sessionId, 200, contexts[sessions[sessionId]].conversationHistory)
  ELSE IF sessionId \in DOMAIN dbSessions
  THEN ReadAnswer("export", sessionId, 200, exportedRows(getMessages(dbMessages, sessionId)))
  ELSE ReadAnswer("export", sessionId, 404, <<>>)

\* app.get('/api/history/:sessionId')
historyOf(sessionId) ==
  IF sessionId \in DOMAIN sessions
  THEN ReadAnswer("history", sessionId, 200, contexts[sessions[sessionId]].conversationHistory)
  ELSE ReadAnswer("history", sessionId, 404, <<>>)

Export ==
  \E sessionId \in SessionIds :
    /\ directCall' = export(sessionId)
    /\ directCall' # directCall
    /\ UNCHANGED <<contexts, sessions, rateLimits, now, analytics, aiAvailable, dbSessions,
                   dbMessages, dbEvents, dbProfiles, emitted, inflight, responses, triageCall>>

History ==
  \E sessionId \in SessionIds :
    /\ directCall' = historyOf(sessionId)
    /\ directCall' # directCall
    /\ UNCHANGED <<contexts, sessions, rateLimits, now, analytics, aiAvailable, dbSessions,
                   dbMessages, dbEvents, dbProfiles, emitted, inflight, responses, triageCall>>

ClearChatRequest ==
  \E sessionId \in SessionIds, message \in {"Book Now", "I have a headache"} :
    DOMAIN inflight = {} /\ RequestCount < MaxClearTurns /\ ChatRequest(sessionId, message)

ClearSpec ==
  Init /\ [][ClearChatRequest \/ TimerFires \/ AIReturns \/ ClearSession \/ History \/ Export]_vars

(***************************************************************************)
(* Specification: one client that books an appointment, answers the        *)
(* questions of the flow with any of its messages, and waits for each      *)
(* answer                                                                  *)
(***************************************************************************)

BookingChatRequest ==
  \E sessionId \in SessionIds, message \in BookingMessages :
    DOMAIN inflight = {} /\ RequestCount < MaxBookingTurns /\ ChatRequest(sessionId, message)

BookingSpec == Init /\ [][BookingChatRequest \/ TimerFires \/ AIReturns]_vars

(***************************************************************************)
(* Specification: performTriage called directly on any arguments           *)
(***************************************************************************)

\* message texts for performTriage: with an emergency keyword, with an emergency and an
\* urgent keyword, with an urgent keyword only, with a moderate keyword, with none
TriageMessages ==
  {"I have chest pain", "Chest pain and a high fever", "I had a stroke and severe pain",
   "I have a high fever", "Severe pain in my stomach", "persistent vomiting since monday",
   "I have a fever", "My knee feels odd"}

TriageSeverities == {NULL, "severe", "mild", "moderate", "intense", "extreme", "slight"}

TriageDurations == {NULL, "1 day", "21 days", "1 week", "2 weeks", "3 weeks", "2 months"}

TriageInit ==
  /\ InitServer
  /\ triageCall \in [message : TriageMessages,
                     symptomInfo : [symptoms : {<<>>}, duration : TriageDurations,
                                    severity : TriageSeverities],
                     result : {NoTriage}]
  /\ directCall = NoDirectCall

\* performTriage(message, symptomInfo) runs: its result, and its update of the counter
PerformTriage ==
  /\ triageCall.result = NoTriage
  /\ triageCall' = [triageCall EXCEPT !.result = performTriage(triageCall.message, triageCall.symptomInfo)]
  /\ analytics' = [analytics EXCEPT !.emergencyCount = @ + performTriageEmergencyCount(triageCall.message)]
  /\ UNCHANGED <<contexts, sessions, rateLimits, now, aiAvailable, dbSessions, dbMessages,
                 dbEvents, dbProfiles, emitted, inflight, responses, directCall>>

TriageNext == PerformTriage

TriageSpec == TriageInit /\ [][TriageNext]_vars

(***************************************************************************)
(* Specification: checkMedicationInteractions and detectIntent called      *)
(* directly on any argument                                                *)
(***************************************************************************)

\* longest medication list passed to checkMedicationInteractions
MaxMedications == 3

\* the arguments of the calls.  Medication lists are made of names as a caller may write
\* them: keys of the interaction table, a name the table lists under other keys only and a
\* name it does not know.  Message texts match one category, several categories or none.
CallInit ==
  /\ InitServer
  /\ triageCall = NoCall
  /\ directCall \in
       [fn : {"checkMedicationInteractions"},
        arg : UNION {[1..n -> {"aspirin", "Warfarin", "ibuprofen", "naproxen", "tylenol"}] :
                       n \in 0..MaxMedications},
        returned : {FALSE}, intent : {NULL}, check : {NoDirectCall.check},
        flow : {<<>>}]
       \cup
       [fn : {"detectIntent"},
        arg : {<<m>> : m \in
                {"Hello", "This is nothing", "", "Thanks, bye", "thanks for the help",
                 "Help me book an appointment", "hello, I have a headache",
                 "I feel sick and need medication", "I need an urgent appointment",
                 "  Schedule  ", "I am taking a healthy diet", "cardiologist for stress",
                 "I need a specialist, how serious is it", "is it mild",
                 "Hi, this is an EMERGENCY", "severe pain in my stomach",
                 "I take pills for wellness and sudden weight loss", "What's new"}},
        returned : {FALSE}, intent : {NULL}, check : {NoDirectCall.check},
        flow : {<<>>}]

\* checkMedicationInteractions(medications) runs
CheckMedicationInteractions ==
  /\ directCall.fn = "checkMedicationInteractions"
  /\ ~directCall.returned
  /\ directCall' = [directCall EXCEPT !.returned = TRUE,
                                      !.check = checkMedicationInteractions(directCall.arg)]
  /\ UNCHANGED <<contexts, sessions, rateLimits, now, analytics, aiAvailable, dbSessions,
                 dbMessages, dbEvents, dbProfiles, emitted, inflight, responses, triageCall>>

\* detectIntent(message) runs
DetectIntent ==
  /\ directCall.fn = "detectIntent"
  /\ ~directCall.returned
  /\ directCall' = [directCall EXCEPT !.returned = TRUE,
                                      !.intent = detectIntent(directCall.arg[1])]
  /\ UNCHANGED <<contexts, sessions, rateLimits, now, analytics, aiAvailable, dbSessions,
                 dbMessages, dbEvents, dbProfiles, emitted, inflight, responses, triageCall>>

CallSpec == CallInit /\ [][CheckMedicationInteractions \/ DetectIntent]_vars

(***************************************************************************)
(* Specification: handleAppointmentFlow called directly, on a context the  *)
(* caller holds, with or without a session id                              *)
(***************************************************************************)

\* the contexts of the calls: one per step of the flow, with and without a session id
FlowContexts ==
  { [NewContext(id) EXCEPT !.askedAppointmentType = stage >= 1,
                           !.appointmentType = IF stage >= 2 THEN "General Checkup" ELSE NULL,
                           !.askedAppointmentDate = stage >= 2,
                           !.appointmentDate = IF stage >= 3 THEN "Tomorrow" ELSE NULL,
                           !.askedAppointmentReason = stage >= 3] :
      id \in {NULL, "session_1"}, stage \in 0..3 }

\* the caller holds one context object; arg is <<message, sessionId>>
FlowCallInit ==
  /\ contexts \in {<<context>> : context \in FlowContexts}
  /\ sessions = EmptyMap
  /\ rateLimits = EmptyMap
  /\ now = 0
  /\ analytics = [totalConversations |-> 0, totalMessages |-> 0, intentDistribution |-> EmptyMap,
                  symptomFrequency |-> EmptyMap, emergencyCount |-> 0]
  /\ aiAvailable \in BOOLEAN
  /\ dbSessions = EmptyMap
  /\ dbMessages = <<>>
  /\ dbEvents = <<>>
  /\ dbProfiles = EmptyMap
  /\ emitted = <<>>
  /\ inflight = EmptyMap
  /\ responses = <<>>
  /\ triageCall = NoCall
  /\ directCall \in
       [fn : {"handleAppointmentFlow"},
        arg : {<<message, sessionId>> : message \in Messages, sessionId \in {NULL, "session_1"}},
        returned : {FALSE}, intent : {NULL}, check : {NoDirectCall.check}, flow : {<<>>}]

\* the state after handleAppointmentFlow has run with effect eff for the session id in
\* use; the messages table rejects a row without session id (session_id TEXT NOT NULL)
FlowCallOutcome(sessionId, eff) ==
  /\ contexts' = [contexts EXCEPT ![1] = eff.ctx]
  /\ sessions' = IF eff.set THEN Put(sessions, sessionId, 1) ELSE sessions
  /\ dbMessages' = dbMessages \o SelectSeq(eff.saves, LAMBDA row : truthy(row.session_id))
  /\ dbSessions' = updatedSessions(dbSessions, sessionId, eff.ctx.userInfo, eff.updates)
  /\ directCall' = [directCall EXCEPT !.returned = TRUE, !.flow = <<eff.ret>>]

\* handleAppointmentFlow(message, context, sessionId) runs
HandleAppointmentFlow ==
  /\ directCall.fn = "handleAppointmentFlow"
  /\ ~directCall.returned
  /\ \E rnd \in RandomDraws :
       FlowCallOutcome(flowSessionId(contexts[1], directCall.arg[2]),
                       handleAppointmentFlow(directCall.arg[1], contexts[1], directCall.arg[2], rnd))
  /\ UNCHANGED <<rateLimits, now, analytics, aiAvailable, dbEvents, dbProfiles, emitted,
                 inflight, responses, triageCall>>

FlowCallSpec == FlowCallInit /\ [][HandleAppointmentFlow]_vars

(***************************************************************************)
(* Properties of performTriage                                             *)
(***************************************************************************)

\* the direct call of performTriage has returned
TriageReturned == triageCall.result # NoTriage

\* the text of the call contains a keyword of the list configured for level
ContainsKeyword(level) ==
  \E n \in 1..Len(triageLevels[level].keywords) :
    includes(toLowerCase(triageCall.message), triageLevels[level].keywords[n])

\* C9: every call of performTriage whose text contains a configured emergency keyword
\* returns level emergency, priority 1 and urgency CRITICAL, whatever severity and
\* duration are supplied and whether or not the text also contains an urgent keyword.
EmergencyKeywordIsCritical ==
  (TriageReturned /\ ContainsKeyword("emergency"))
    => /\ triageCall.result.triageLevel = "emergency"
       /\ triageCall.result.priority = 1
       /\ triageCall.result.urgency = "CRITICAL"

\* a call has returned whose text holds an emergency and an urgent keyword and whose
\* severity and duration would select another level further down the ladder
EmergencyKeywordIsCriticalWitness ==
  /\ TriageReturned
  /\ ContainsKeyword("emergency")
  /\ ContainsKeyword("urgent")
  /\ triageCall.symptomInfo.severity = "moderate"
  /\ triageCall.symptomInfo.duration = "3 weeks"
  /\ triageCall.result.urgency = "CRITICAL"

\* C10: every call of performTriage whose text contains an urgent keyword and no
\* emergency keyword returns level urgent, priority 2 and urgency HIGH, for every
\* severity (mild and moderate included) and every duration.
UrgentKeywordIsHigh ==
  (TriageReturned /\ ContainsKeyword("urgent") /\ ~ContainsKeyword("emergency"))
    => /\ triageCall.result.triageLevel = "urgent"
       /\ triageCall.result.priority = 2
       /\ triageCall.result.urgency = "HIGH"

\* a call has returned whose text holds an urgent keyword only and whose severity is one
\* the ladder would rate lower
UrgentKeywordIsHighWitness ==
  /\ TriageReturned
  /\ ContainsKeyword("urgent")
  /\ ~ContainsKeyword("emergency")
  /\ triageCall.symptomInfo.severity \in {"mild", "moderate"}
  /\ triageCall.symptomInfo.duration = "2 months"
  /\ triageCall.result.urgency = "HIGH"

\* the text of the call contains neither an emergency nor an urgent keyword
NoTriageKeyword == ~ContainsKeyword("emergency") /\ ~ContainsKeyword("urgent")

\* what the duration texts of TriageDurations say: a count and a unit
DurationMeaning ==
  [d \in TriageDurations \ {NULL} |->
     CASE d = "1 day"    -> [count |-> 1,  unit |-> "day",   days |-> 1]
       [] d = "21 days"  -> [count |-> 21, unit |-> "day",   days |-> 21]
       [] d = "1 week"   -> [count |-> 1,  unit |-> "week",  days |-> 7]
       [] d = "2 weeks"  -> [count |-> 2,  unit |-> "week",  days |-> 14]
       [] d = "3 weeks"  -> [count |-> 3,  unit |-> "week",  days |-> 21]
       [] d = "2 months" -> [count |-> 2,  unit |-> "month", days |-> 60]]

\* the severity of the call is one of severe, intense, extreme
SevereSeverity == triageCall.symptomInfo.severity \in {"severe", "intense", "extreme"}

\* the duration of the call is expressed in months
DurationInMonths ==
  /\ triageCall.symptomInfo.duration # NULL
  /\ DurationMeaning[triageCall.symptomInfo.duration].unit = "month"

\* the duration of the call lasts two weeks or longer, in whatever unit it is expressed
DurationLastsTwoWeeks ==
  /\ triageCall.symptomInfo.duration # NULL
  /\ DurationMeaning[triageCall.symptomInfo.duration].days >= 14

\* the duration of the call is a count of two or more with the unit week
DurationCountsTwoWeeks ==
  /\ triageCall.symptomInfo.duration # NULL
  /\ DurationMeaning[triageCall.symptomInfo.duration].unit = "week"
  /\ DurationMeaning[triageCall.symptomInfo.duration].count >= 2

ResultIs(level, priority, urgency) ==
  /\ triageCall.result.triageLevel = level
  /\ triageCall.result.priority = priority
  /\ triageCall.result.urgency = urgency

\* level, priority and urgency of the result agree
LevelsAgree ==
  \/ ResultIs("emergency", 1, "CRITICAL")
  \/ ResultIs("urgent", 2, "HIGH")
  \/ ResultIs("moderate", 3, "MEDIUM")
  \/ ResultIs("routine", 4, "LOW")

\* the ladder below the keyword rules, moderate being the outcome of the duration rule
LadderBelowKeywords(moderate) ==
  /\ ResultIs("urgent", 2, "HIGH") <=> SevereSeverity
  /\ ResultIs("moderate", 3, "MEDIUM") <=> (~SevereSeverity /\ moderate)
  /\ ResultIs("routine", 4, "LOW") <=> (~SevereSeverity /\ ~moderate)

Turns == 1..Len(responses)

\* the turn was answered by generateResponse
Answered(t) == responses[t].status = 200

\* the message of the turn is one of the fixed booking-trigger phrases
IsTrigger(t) == arrayIncludes(bookingTriggers, toLowerCase(responses[t].message))

\* the intent detectIntent gives the message of the turn
IntentOf(t) == messageAnalysis[responses[t].message].intent

\* some asked-flag of the appointment state st is true
AnyAsked(st) == st.askedType \/ st.askedDate \/ st.askedReason

\* the appointment state AskedType holding the stored type ty
InAskedType(st) == st.askedType /\ ~st.askedDate /\ ~st.askedReason

\* turns t .. t+3 are four consecutive answered turns of one session that begin in Idle
\* with a trigger phrase, followed by an answer that is not a trigger phrase
FourTurnBooking(t) ==
  /\ t + 3 <= Len(responses)
  /\ \A k \in t..(t + 3) : Answered(k) /\ responses[k].sessionId = responses[t].sessionId
  /\ responses[t].before = IdleState
  /\ IsTrigger(t)
  /\ ~IsTrigger(t + 1)

\* C1: starting from an Idle appointment state, after four consecutive turns of one
\* session (a booking-trigger phrase, a type answer, a date answer, a reason answer) the
\* appointment state is Idle again: the three asked-flags false, the three values cleared.
BookingReturnsToIdle ==
  \A t \in Turns : FourTurnBooking(t) => responses[t + 3].after = IdleState

\* a booking of four turns has run: the flag was set, type and date were stored, and the
\* fourth turn ended in Idle
BookingReturnsToIdleWitness ==
  \E t \in Turns :
    /\ FourTurnBooking(t)
    /\ InAskedType(responses[t].after)
    /\ responses[t + 1].after.type = responses[t + 1].message
    /\ responses[t + 2].after.date = responses[t + 2].message
    /\ responses[t + 2].after.askedReason
    /\ responses[t + 3].after = IdleState

\* C2: a turn whose message is a booking-trigger phrase and that starts with
\* askedAppointmentType true and askedAppointmentDate false ends with the appointment
\* state as it was: appointmentType unmodified, the state still AskedType.
TriggerInAskedTypeKeepsState ==
  \A t \in Turns :
    (Answered(t) /\ IsTrigger(t) /\ responses[t].before.askedType /\ ~responses[t].before.askedDate)
      => /\ responses[t].after = responses[t].before
         /\ InAskedType(responses[t].after)

\* a trigger phrase was answered while the session was in AskedType
TriggerInAskedTypeKeepsStateWitness ==
  \E t \in Turns :
    /\ Answered(t) /\ IsTrigger(t)
    /\ InAskedType(responses[t].before)
    /\ InAskedType(responses[t].after)
    /\ responses[t].after.type = NULL

\* a turn with an emergency-intent message that starts while a booking is open
EmergencyDuringBooking(t) ==
  Answered(t) /\ IntentOf(t) = "emergency" /\ AnyAsked(responses[t].before)

\* a turn with an emergency-intent message that starts outside a booking
EmergencyOutsideBooking(t) ==
  Answered(t) /\ IntentOf(t) = "emergency" /\ ~AnyAsked(responses[t].before)

\* the response text is one of the emergency templates
IsEmergencyTemplate(text) ==
  \E n \in 1..Len(chatbotResponses["emergency"]) : text = chatbotResponses["emergency"][n]

\* the flow took the message of turn t as the answer that was pending when the turn
\* started: the reason (the booking is closed), else the date, else the type
TakenAsAnswer(t) ==
  IF responses[t].before.askedReason
  THEN /\ responses[t].after = IdleState
       /\ includes(responses[t].response, "**Reason:** " \o responses[t].message \o "\n")
  ELSE IF responses[t].before.askedDate
  THEN /\ responses[t].after.date = responses[t].message
       /\ responses[t].after.askedReason
  ELSE /\ responses[t].after.type = responses[t].message
       /\ responses[t].after.askedDate

StartsBooking(t) == Answered(t) /\ ~responses[t].before.askedType /\ responses[t].after.askedType

\* C4 as stated: no turn whose message is not a booking-trigger phrase sets
\* askedAppointmentType to true.
OnlyTriggerStartsBooking ==
  \A t \in Turns : StartsBooking(t) => IsTrigger(t)

\* C4 as amended: a turn sets askedAppointmentType to true only when the flag is false and
\* its message is a booking-trigger phrase or is classified with appointment intent, and
\* then the answer is the one of the appointment flow; no turn whose message is neither
\* sets the flag.
OnlyAppointmentMessageStartsBooking ==
  \A t \in Turns :
    StartsBooking(t)
      => /\ IsTrigger(t) \/ IntentOf(t) = "appointment"
         /\ responses[t].path \in {"appointment_trigger", "appointment_case"}
         /\ InAskedType(responses[t].after)

\* a booking was started by a message of appointment intent that is no trigger phrase,
\* and a message of another intent was answered in Idle and left the session in Idle
OnlyAppointmentMessageStartsBookingWitness ==
  /\ \E t \in Turns : StartsBooking(t) /\ ~IsTrigger(t) /\ IntentOf(t) = "appointment"
  /\ \E t \in Turns :
       /\ Answered(t) /\ IntentOf(t) \notin {"appointment", "emergency"}
       /\ responses[t].before = IdleState /\ responses[t].after = IdleState

EmergencyPathSkipsAI ==
  \A t \in Turns :
    /\ EmergencyOutsideBooking(t) => responses[t].path = "emergency"
    /\ responses[t].path = "emergency"
         => /\ ~responses[t].aiInvoked
            /\ ~responses[t].aiEnhanced
            /\ IsEmergencyTemplate(responses[t].response)

\* with the AI service available, one turn was answered after the AI call and an
\* emergency turn was answered without it
EmergencyPathSkipsAIWitness ==
  /\ aiAvailable
  /\ \E t \in Turns : responses[t].aiInvoked
  /\ \E t \in Turns : responses[t].path = "emergency" /\ ~responses[t].aiInvoked

\* the context objects allocated so far
Objects == 1..Len(contexts)

\* in the context object the flags are set in the order type, date, reason
FlagsOrdered(context) ==
  /\ context.askedAppointmentReason => context.askedAppointmentDate
  /\ context.askedAppointmentDate => context.askedAppointmentType

\* some asked-flag of the context object is true before the step and false after it
FlagCleared(o) ==
  \/ contexts[o].askedAppointmentType /\ ~contexts'[o].askedAppointmentType
  \/ contexts[o].askedAppointmentDate /\ ~contexts'[o].askedAppointmentDate
  \/ contexts[o].askedAppointmentReason /\ ~contexts'[o].askedAppointmentReason

\* the step is the completion step on the context object: it starts in AskedReason and
\* leaves the three flags false and the three values null
CompletionStep(o) ==
  /\ contexts[o].askedAppointmentReason
  /\ AppointmentState(contexts'[o]) = IdleState

\* C7: in every reachable state askedAppointmentReason implies askedAppointmentDate and
\* askedAppointmentDate implies askedAppointmentType, for every context object; and a
\* step that turns an asked-flag from true to false is the completion step, which resets
\* the three flags and the three values together.
FlagsMonotonic ==
  /\ [](\A o \in Objects : FlagsOrdered(contexts[o]))
  /\ [][\A o \in Objects : FlagCleared(o) => CompletionStep(o)]_vars

\* a booking went through AskedType, AskedDate and AskedReason and was completed
FlagsMonotonicWitness ==
  /\ \E t \in Turns : InAskedType(responses[t].after)
  /\ \E t \in Turns : responses[t].after.askedDate /\ ~responses[t].after.askedReason
  /\ \E t \in Turns : responses[t].before.askedReason /\ responses[t].after = IdleState
  /\ \A o \in Objects : AppointmentState(contexts[o]) = IdleState

\* C8: on the closing transition (a turn that starts with askedAppointmentReason true) the
\* summary reports the type stored by the AskedType to AskedDate transition, the date
\* stored by the AskedDate to AskedReason transition and the message of the turn as
\* reason, and the turn ends with the three flags false and the three values null; the
\* two storing transitions store the message of their turn and keep what was stored.
SummaryReportsStoredAnswers ==
  \A t \in Turns :
    /\ (Answered(t) /\ InAskedType(responses[t].before) /\ ~IsTrigger(t))
         => /\ responses[t].after.type = responses[t].message
            /\ responses[t].after.askedDate
    /\ (Answered(t) /\ responses[t].before.askedDate /\ ~responses[t].before.askedReason)
         => /\ responses[t].after.date = responses[t].message
            /\ responses[t].after.type = responses[t].before.type
            /\ responses[t].after.askedReason
    /\ (Answered(t) /\ responses[t].before.askedReason)
         => /\ includes(responses[t].response,
                        "**Appointment Type:** " \o responses[t].before.type \o "\n")
            /\ includes(responses[t].response,
                        "**Preferred Date:** " \o responses[t].before.date \o "\n")
            /\ includes(responses[t].response,
                        "**Reason:** " \o responses[t].message \o "\n")
            /\ responses[t].quickActions = <<"New Appointment", "View Details", "Contact Support">>
            /\ responses[t].after = IdleState

\* a booking was closed whose type, date and reason are three different messages
SummaryReportsStoredAnswersWitness ==
  \E t \in Turns :
    /\ t > 2
    /\ Answered(t) /\ responses[t].before.askedReason
    /\ responses[t].before.type = responses[t - 2].message
    /\ responses[t].before.date = responses[t - 1].message
    /\ Cardinality({responses[t - 2].message, responses[t - 1].message, responses[t].message}) = 3
    /\ responses[t].after = IdleState

(***************************************************************************)
(* Properties of checkMedicationInteractions and detectIntent              *)
(***************************************************************************)

\* the direct call of the function fn has returned
CallReturned(fn) == directCall.fn = fn /\ directCall.returned

\* the interaction-table entry of medication a lists medication b
Listed(a, b) ==
  a \in DOMAIN medicationInteractions /\ arrayIncludes(medicationInteractions[a].interactions, b)

\* the pairs of medications of the list for which the table entry of either one lists
\* the other, each pair as a set of two lower-case names
ConfiguredPairs(medications) ==
  { {toLowerCase(medications[i]), toLowerCase(medications[j])} :
      <<i, j>> \in { q \in (DOMAIN medications) \X (DOMAIN medications) :
                       /\ q[1] # q[2]
                       /\ \/ Listed(toLowerCase(medications[q[1]]), toLowerCase(medications[q[2]]))
                          \/ Listed(toLowerCase(medications[q[2]]), toLowerCase(medications[q[1]])) } }

\* the pairs a result flags, each pair as a set of two names
FlaggedPairs(check) ==
  { {check.interactions[n].medication1, check.interactions[n].medication2} :
      n \in DOMAIN check.interactions }

\* the orderings of a list
Orderings(list) ==
  { [k \in DOMAIN list |-> list[p[k]]] :
      p \in { f \in [DOMAIN list -> DOMAIN list] : \A x, y \in DOMAIN list : f[x] = f[y] => x = y } }

\* C12: checkMedicationInteractions flags a pair of input medications whenever the table
\* entry of either one lists the other, so the set of flagged pairs is the same for every
\* ordering of the input list.
InteractionsBothDirections ==
  CallReturned("checkMedicationInteractions")
    => /\ FlaggedPairs(directCall.check) = ConfiguredPairs(directCall.arg)
       /\ \A other \in Orderings(directCall.arg) :
            FlaggedPairs(checkMedicationInteractions(other)) = FlaggedPairs(directCall.check)

\* some warning of the list names both medications a and b
WarningNames(warnings, a, b) ==
  \E n \in DOMAIN warnings : includes(warnings[n], a) /\ includes(warnings[n], b)

\* C13: for an input that contains a pair configured as interacting the returned warning
\* list is not empty and names both medications of the pair; for an input with fewer than
\* two medications the returned warning list is empty.
InteractingPairIsWarned ==
  CallReturned("checkMedicationInteractions")
    => /\ \A pair \in ConfiguredPairs(directCall.arg) :
            /\ Len(directCall.check.warnings) > 0
            /\ \A a, b \in pair : a # b => WarningNames(directCall.check.warnings, a, b)
       /\ Len(directCall.arg) < 2 => directCall.check.warnings = <<>>

\* the categories in the order detectIntent declares them
DeclaredOrder ==
  <<"emergency", "greeting", "goodbye", "help", "symptom", "appointment", "medication",
    "wellness", "specialty", "triage">>

\* the pattern of the n-th category matches the normalised text of the call
PatternMatches(n) == testWords(trim(toLowerCase(directCall.arg[1])), intents[n].words)

\* C14: detectIntent returns the first category, in the declared order emergency, greeting,
\* goodbye, help, symptom, appointment, medication, wellness, specialty, triage, whose
\* pattern matches the message, and general when none matches; whenever the emergency
\* pattern matches the result is emergency, whatever other categories also match.
FirstDeclaredIntentWins ==
  CallReturned("detectIntent")
    => /\ [n \in DOMAIN intents |-> intents[n].intent] = DeclaredOrder
       /\ \A n \in DOMAIN intents :
            (PatternMatches(n) /\ \A k \in 1..(n - 1) : ~PatternMatches(k))
              => directCall.intent = DeclaredOrder[n]
       /\ (\A n \in DOMAIN intents : ~PatternMatches(n)) => directCall.intent = "general"
       /\ PatternMatches(1) => directCall.intent = "emergency"

\* a call has returned emergency for a text that also matches the greeting and the triage
\* patterns
FirstDeclaredIntentWinsWitness ==
  /\ CallReturned("detectIntent")
  /\ PatternMatches(1) /\ PatternMatches(2) /\ PatternMatches(10)
  /\ directCall.intent = "emergency"

(***************************************************************************)
(* Properties of the symptom, medication and fallback answers              *)
(***************************************************************************)

\* the turn reached generateResponse: it was neither refused as empty nor rate limited
Generated(t) == responses[t].status \notin {400, 429}

\* the response text of the turn carries the text the AI service returned
FromAI(t) == truthy(responses[t].response) /\ includes(responses[t].response, AIText)

\* C15: every turn with a non-emergency intent whose answer is not text of the AI service
\* (the call failed, returned null or was not possible) still returns a non-empty response
\* with status 200, and for symptom, appointment, medication and wellness intents a
\* non-empty quickActions list.
FallbackAlwaysAnswers ==
  \A t \in Turns :
    (Generated(t) /\ IntentOf(t) # "emergency" /\ ~FromAI(t))
      => /\ responses[t].status = 200
         /\ truthy(responses[t].response)
         /\ IntentOf(t) \in {"symptom", "appointment", "medication", "wellness"}
              => Len(responses[t].quickActions) > 0

\* the AI call was made and failed on three turns: a symptom turn answered by the general
\* symptom template, a wellness turn and an appointment turn answered by the rules
FallbackAlwaysAnswersWitness ==
  /\ \E t \in Turns :
       responses[t].aiInvoked /\ ~FromAI(t) /\ responses[t].path = "symptom_general"
  /\ \E t \in Turns :
       responses[t].aiInvoked /\ ~FromAI(t) /\ IntentOf(t) = "wellness"
         /\ responses[t].path = "standard"
  /\ \E t \in Turns :
       responses[t].aiInvoked /\ ~FromAI(t) /\ responses[t].path = "appointment_case"

\* the medications the messages of the session have named in the turns 1 .. t
RECURSIVE MentionedUpTo(_, _)
MentionedUpTo(sessionId, t) ==
  IF t = 0 THEN <<>>
  ELSE MentionedUpTo(sessionId, t - 1)
         \o (IF Generated(t) /\ responses[t].sessionId = sessionId
             THEN messageAnalysis[responses[t].message].medications ELSE <<>>)

\* the response of turn t carries a warning for every interacting pair among the
\* medications of its session
WarnsOfInteractions(t) ==
  \A pair \in ConfiguredPairs(MentionedUpTo(responses[t].sessionId, t)) :
    \E a, b \in pair :
      a # b /\ includes(responses[t].response, "Potential interaction between " \o a \o " and " \o b)

\* the response of turn t carries the urgency banner
HasUrgencyBanner(t) == includes(responses[t].response, "[ALERT] **URGENCY: ")

\* C16: on every symptom turn for which the AI call succeeds the returned triage is the
\* performTriage result for the message, an urgency banner is present when that result is
\* CRITICAL or HIGH, and the interaction warnings for the medications of the session are
\* included in the response.
SymptomTurnKeepsTriage ==
  \A t \in Turns :
    (Answered(t) /\ IntentOf(t) = "symptom" /\ responses[t].aiInvoked /\ FromAI(t))
      => /\ responses[t].triage = messageAnalysis[responses[t].message].triage
         /\ isHighUrgency(messageAnalysis[responses[t].message].triage) => HasUrgencyBanner(t)
         /\ WarnsOfInteractions(t)

\* C17: whenever the triage urgency returned for a turn is CRITICAL or HIGH, the returned
\* quickActions list starts with Call 911, whether the response text came from the AI
\* service or from a template.
HighUrgencyOffersCall911 ==
  \A t \in Turns :
    (Answered(t) /\ isHighUrgency(responses[t].triage))
      => /\ Len(responses[t].quickActions) > 0
         /\ responses[t].quickActions[1] = "Call 911"

\* C18: a chat message that contains an urgent keyword and no emergency keyword, sent
\* outside a booking, is answered as urgent: the returned triage has priority 2 and urgency
\* HIGH.
UrgentKeywordMessageIsHigh ==
  \A t \in Turns :
    (/\ Answered(t)
     /\ ~AnyAsked(responses[t].before)
     /\ hasKeyword(toLowerCase(responses[t].message), "urgent")
     /\ ~hasKeyword(toLowerCase(responses[t].message), "emergency"))
      => /\ responses[t].triage.priority = 2
         /\ responses[t].triage.urgency = "HIGH"

(***************************************************************************)
(* Requests in flight at the same time                                     *)
(***************************************************************************)

\* request r has run generateResponse up to the await of the AI call and not further
Awaiting(r) == r \in DOMAIN inflight /\ inflight[r].pc = "await"

\* the context object of the session in the Map
SessionContext(sessionId) == contexts[sessions[sessionId]]

\* in a history written by turns that ran one after the other every user message is
\* followed by the answer to it
AnsweredInTurn(history) ==
  \A n \in 1..Len(history) :
    history[n].role = "user" => (n < Len(history) /\ history[n + 1].role = "bot")

\* while request r stays at its await, the step leaves the context of its session alone
NoStepInside(r) ==
  (Awaiting(r) /\ r \in DOMAIN inflight' /\ inflight'[r].pc = "await")
    => contexts'[inflight[r].obj] = contexts[inflight[r].obj]

\* C19: turns of one session run one at a time.  Between the first step of a turn (the
\* timer callback that appends the user message) and its last step (the continuation
\* after the AI call) no other turn of the session changes the context, and once every
\* request is answered the history reads as turns run one after the other: each user
\* message directly followed by its answer.
TurnsRunOneAtATime ==
  /\ [][\A r \in DOMAIN inflight : NoStepInside(r)]_vars
  /\ [](DOMAIN inflight = {} =>
          \A sessionId \in DOMAIN sessions :
            AnsweredInTurn(SessionContext(sessionId).conversationHistory))

(***************************************************************************)
(* Two sessions served by one process                                      *)
(***************************************************************************)

\* everything the server keeps for one session id: its context object, its rate limit
\* entry and its rows in the tables sessions, user_profiles and messages
SessionView(sessionId) ==
  [context  |-> IF sessionId \in DOMAIN sessions THEN <<SessionContext(sessionId)>> ELSE <<>>,
   limit    |-> IF sessionId \in DOMAIN rateLimits THEN <<rateLimits[sessionId]>> ELSE <<>>,
   row      |-> IF sessionId \in DOMAIN dbSessions THEN <<dbSessions[sessionId]>> ELSE <<>>,
   profile  |-> IF sessionId \in DOMAIN dbProfiles THEN <<dbProfiles[sessionId]>> ELSE <<>>,
   messages |-> getMessages(dbMessages, sessionId)]

\* the step accepts, runs or answers a request of the session
ActsFor(sessionId) ==
  \/ \E r \in DOMAIN inflight' \ DOMAIN inflight : inflight'[r].sessionId = sessionId
  \/ \E r \in DOMAIN inflight :
       /\ inflight[r].sessionId = sessionId
       /\ r \notin DOMAIN inflight' \/ inflight'[r] # inflight[r]
  \/ Len(responses') > Len(responses) /\ responses'[Len(responses')].sessionId = sessionId

\* the session ids the server has seen
KnownSessions == DOMAIN sessions \cup DOMAIN dbSessions \cup DOMAIN rateLimits

IsOwnTurn(turn, sessionId) == turn.sessionId = sessionId /\ turn.status \notin {400, 429}

\* the answered turns of the session, in order
RECURSIVE OwnTurns(_, _)
OwnTurns(log, sessionId) ==
  IF Len(log) = 0 THEN <<>>
  ELSE (IF IsOwnTurn(log[1], sessionId) THEN <<log[1]>> ELSE <<>>)
         \o OwnTurns(Tail(log), sessionId)

\* the messages of the session whose user entry is in the history: those of its answered
\* turns, then the one of its request waiting for the AI service
RECURSIVE AwaitedMessages(_, _)
AwaitedMessages(rs, sessionId) ==
  IF rs = {} THEN <<>>
  ELSE LET r == CHOOSE x \in rs : \A y \in rs : x <= y
       IN  (IF Awaiting(r) /\ inflight[r].sessionId = sessionId
            THEN <<inflight[r].message>> ELSE <<>>)
             \o AwaitedMessages(rs \ {r}, sessionId)

RECURSIVE EntriesOf(_, _)
EntriesOf(history, role) ==
  IF Len(history) = 0 THEN <<>>
  ELSE (IF history[1].role = role THEN <<history[1].message>> ELSE <<>>)
         \o EntriesOf(Tail(history), role)

MessagesOf(turns) == [n \in 1..Len(turns) |-> turns[n].message]

\* the history of the session holds its own messages in order and no answer but its own
OwnHistoryOnly(sessionId, history, turns) ==
  /\ EntriesOf(history, "user") = MessagesOf(turns) \o AwaitedMessages(DOMAIN inflight, sessionId)
  /\ \A n \in 1..Len(history) :
       history[n].role = "bot" => \E t \in 1..Len(turns) : turns[t].response = history[n].message

\* every turn starts from the appointment state the previous turn of the session left,
\* and its conversationLength counts entries of its own turns only
OwnChain(turns) ==
  \A n \in 1..Len(turns) :
    /\ turns[n].before = (IF n = 1 THEN IdleState ELSE turns[n - 1].after)
    /\ turns[n].conversationLength - (IF n = 1 THEN 0 ELSE turns[n - 1].conversationLength)
         \in {2, 3}

\* two sessions that sent the same messages and met the same AI outcomes got the same
\* answers, up to the template drawn
SameCourse(a, b) ==
  /\ Len(a) = Len(b)
  /\ \A n \in 1..Len(a) :
       /\ a[n].message = b[n].message
       /\ a[n].aiInvoked = b[n].aiInvoked
       /\ a[n].aiEnhanced = b[n].aiEnhanced
       /\ a[n].path = b[n].path

SameAnswers(a, b) ==
  \A n \in 1..Len(a) :
    /\ a[n].before = b[n].before
    /\ a[n].after = b[n].after
    /\ a[n].quickActions = b[n].quickActions
    /\ a[n].triage = b[n].triage
    /\ a[n].conversationLength = b[n].conversationLength

ClassifiedEmergency(t) ==
  /\ Generated(t)
  /\ \/ IntentOf(t) = "emergency"
     \/ IntentOf(t) = "symptom" /\ performTriageEmergencyCount(responses[t].message) = 1

\* the turn was answered by the appointment flow, which took the message as an answer
TakenByBooking(t) == responses[t].path = "appointment_flow"

TurnsOfHistory(history) ==
  [n \in 1..Len(history) |-> <<history[n].role, history[n].message>>]

TurnsOfRows(rows) == [n \in 1..Len(rows) |-> <<rows[n].role, rows[n].message>>]

\* every element of a occurs in b, in the same order
RECURSIVE ContainsInOrder(_, _)
ContainsInOrder(b, a) ==
  IF Len(a) = 0 THEN TRUE
  ELSE IF Len(b) = 0 THEN FALSE
  ELSE IF b[1] = a[1] THEN ContainsInOrder(Tail(b), Tail(a))
  ELSE ContainsInOrder(Tail(b), a)

\* no request of the session is in flight
Quiet(sessionId) == \A r \in DOMAIN inflight : inflight[r].sessionId # sessionId

\* C23: once the turns of a session are completed, the rows of the session in the table
\* messages contain every entry of its conversation history, user and bot, in the same
\* order.
StoreMirrorsHistory ==
  \A sessionId \in DOMAIN sessions :
    Quiet(sessionId)
      => ContainsInOrder(TurnsOfRows(getMessages(dbMessages, sessionId)),
                         TurnsOfHistory(SessionContext(sessionId).conversationHistory))

(***************************************************************************)
(* The Map sessions as a cache of the tables                               *)
(***************************************************************************)

\* the step puts a context for the session id into the Map, which held none
EntersCache(sessionId) == sessionId \notin DOMAIN sessions /\ sessionId \in DOMAIN sessions'

\* history starts with the turns stored, in order
StartsWith(history, stored) ==
  /\ Len(stored) <= Len(history)
  /\ SubSeq(history, 1, Len(stored)) = stored

\* the context the step put into the Map was rebuilt from the row of the session and its
\* messages: its history starts with the stored turns and the stored asked-flags are set
RebuiltFromStore(sessionId, context) ==
  /\ StartsWith(TurnsOfHistory(context.conversationHistory),
                TurnsOfRows(getMessages(dbMessages, sessionId)))
  /\ metaGet(dbSessions[sessionId].metadata, "askedDuration", FALSE) => context.askedDuration
  /\ metaGet(dbSessions[sessionId].metadata, "askedSeverity", FALSE) => context.askedSeverity
  /\ metaGet(dbSessions[sessionId].metadata, "askedOtherSymptoms", FALSE)
       => context.askedOtherSymptoms

\* C22: whenever a step puts a context for a session id into the Map that held none (a
\* chat request for an id not in the cache, or its turn), the context is rebuilt from the
\* stored history and metadata if the table sessions holds a row for the id, and it is a
\* freshly initialized context only if the table holds none.
ColdReadHydrates ==
  [][\A sessionId \in SessionIds :
       EntersCache(sessionId)
         => IF sessionId \in DOMAIN dbSessions
            THEN RebuiltFromStore(sessionId, contexts'[sessions'[sessionId]])
            ELSE contexts'[sessions'[sessionId]] = NewContext(sessionId)]_vars

\* the step rebuilds the Map while the session has an entry before and after it: the
\* process was restarted
RebuiltInPlace(sessionId) ==
  /\ sessionId \in DOMAIN sessions
  /\ sessionId \in DOMAIN sessions'
  /\ inflight' = inflight
  /\ responses' = responses

\* C24: the appointment flow state survives a restart.  When the context of a session is
\* rebuilt from the tables, it has the asked-flags and the stored type, date and reason
\* the session had before, so that the next message continues the flow at its step.
BookingSurvivesRestart ==
  [][\A sessionId \in SessionIds :
       RebuiltInPlace(sessionId)
         => AppointmentState(contexts'[sessions'[sessionId]])
              = AppointmentState(SessionContext(sessionId))]_vars

\* the flags of the symptom follow-up questions that are set in the context
SymptomFlags(context) ==
  {flag \in {"askedDuration", "askedSeverity", "askedOtherSymptoms"} : context[flag]}

\* C25: a symptom asked-flag that is true for a session stays true in every later state
\* in which the session has a context, whatever the kind of the turns in between and
\* also when the context is rebuilt from the tables.
SymptomFlagsStay ==
  [][\A sessionId \in SessionIds :
       (sessionId \in DOMAIN sessions /\ sessionId \in DOMAIN sessions')
         => SymptomFlags(SessionContext(sessionId))
              \subseteq SymptomFlags(contexts'[sessions'[sessionId]])]_vars

(***************************************************************************)
(* Rejected requests                                                       *)
(***************************************************************************)

\* a message made of nothing but white space
IsBlank(message) == \A i \in 1..Len(message) : IsSpace(CharAt(message, i))

\* what the server holds apart from the log of the answers it gave
ServerState ==
  <<contexts, sessions, rateLimits, analytics, dbSessions, dbMessages, dbEvents, dbProfiles,
    emitted, inflight>>

NoSessionIdNoFlow ==
  [][(directCall.fn = "handleAppointmentFlow" /\ directCall'.returned /\ ~directCall.returned
        /\ ~truthy(directCall.arg[2]) /\ ~truthy(contexts[1].sessionId))
       => /\ directCall'.flow = <<NullResult>>
          /\ UNCHANGED <<contexts, sessions, dbSessions, dbMessages>>]_vars

(***************************************************************************)
(* Exceptions at the turn boundary                                         *)
(***************************************************************************)

\* the answers given to the session, in order
AnswersTo(sessionId) == SelectSeq(responses, LAMBDA a : a.sessionId = sessionId)

\* C29: a turn whose composition throws is answered with the generic apology, which carries
\* the session id of the request and no answer text, and the session stays usable: it keeps
\* its context, and every later turn of the session that runs without throwing is answered
\* with status 200 and a text, and is recorded in the history
ExceptionBecomesApology ==
  /\ \A i \in 1..Len(responses) :
       responses[i].status = 500
         => /\ responses[i].path = "error"
            /\ responses[i].response = NULL
            /\ responses[i].sessionId \in SessionIds
            /\ responses[i].sessionId \in DOMAIN sessions
  /\ \A sessionId \in SessionIds :
       \A i, j \in 1..Len(AnswersTo(sessionId)) :
         (i < j /\ AnswersTo(sessionId)[i].status = 500 /\ AnswersTo(sessionId)[j].path # "error")
           => /\ AnswersTo(sessionId)[j].status = 200
              /\ truthy(AnswersTo(sessionId)[j].response)
              /\ AnswersTo(sessionId)[j].conversationLength >= 2

\* a turn failed in the middle of a booking and the next message of the session was taken
\* as the answer to the open question
ExceptionBecomesApologyWitness ==
  \E i \in 1..Len(responses) - 1 :
    /\ responses[i].status = 500
    /\ responses[i + 1].sessionId = responses[i].sessionId
    /\ responses[i + 1].status = 200
    /\ responses[i + 1].path = "appointment_flow"

(***************************************************************************)
(* Termination of a turn                                                   *)
(***************************************************************************)

\* C30: every accepted chat request is eventually answered, also when the AI service
\* never answers
EveryRequestAnswered ==
  \A r \in 1..MaxTurns : (r \in DOMAIN inflight) ~> (r \notin DOMAIN inflight)

(***************************************************************************)
(* Failures of the database                                                *)
(***************************************************************************)

\* the step taken on the request r is the one of a server whose database works
TimerStepAsWith(r, found, rnd) ==
  /\ ApplyInMemory(inflight[r].sessionId, found.obj,
                   startLookedUp(inflight[r].message, inflight[r].sessionId, rnd, found).eff,
                   messageAnalysis[inflight[r].message].intent, TRUE)
  /\ TimerReply(r, AppointmentState(found.ctx),
                startLookedUp(inflight[r].message, inflight[r].sessionId, rnd, found))

AIStepAsWith(r, aiResponse, rnd) ==
  /\ ApplyInMemory(inflight[r].sessionId, inflight[r].obj,
                   generateResponseFinish(inflight[r].message, inflight[r].sessionId,
                                          contexts[inflight[r].obj], inflight[r].intent,
                                          inflight[r].interactionWarnings, aiResponse, rnd),
                   inflight[r].intent, FALSE)
  /\ SendResponse(r, inflight[r].obj,
                  generateResponseFinish(inflight[r].message, inflight[r].sessionId,
                                         contexts[inflight[r].obj], inflight[r].intent,
                                         inflight[r].interactionWarnings, aiResponse, rnd),
                  inflight[r].before, TRUE)

\* the request r moves on in the step: it is answered, or reaches the await
Advances(r) == r \in DOMAIN inflight /\ (r \notin DOMAIN inflight' \/ inflight'[r] # inflight[r])

\* the contexts generateResponse may work on for the request r: the one it finds when the
\* reads succeed, and when reads is TRUE the ones it builds when a read fails
FoundFor(r, reads) ==
  {lookupContext(inflight[r].sessionId)}
    \cup (IF reads
          THEN {lookupContextReadFails(inflight[r].sessionId, failed) :
                  failed \in {"getSession", "getMessages"}}
          ELSE {})

StepAsStoreUp(r, reads) ==
  IF inflight[r].pc = "timer"
  THEN \E rnd \in RandomDraws, found \in FoundFor(r, reads) : TimerStepAsWith(r, found, rnd)
  ELSE \E rnd \in RandomDraws, aiResponse \in AIOutcomes : AIStepAsWith(r, aiResponse, rnd)

\* every answer to a message that is not blank is a text with status 200
AlwaysDelivered ==
  \A i \in 1..Len(responses) : responses[i].status = 200 /\ truthy(responses[i].response)

\* C26 as stated: whatever database call fails during a turn, the turn delivers its
\* response, and the response and the contexts in the process are those of the same turn
\* with every call succeeding
StoreFailureChangesNothing ==
  /\ []AlwaysDelivered
  /\ [][\A r \in 1..MaxTurns : Advances(r) => StepAsStoreUp(r, FALSE)]_vars

\* C26: whatever database call fails during a turn, the turn delivers its response; when
\* writes fail, the response and the contexts in the process are those of the same turn
\* with every call succeeding, and a failing read of a session that is not in the Map is
\* taken as an absent row (getSession) or as an empty list of messages (getMessages)
StoreFailureIsNotFatal ==
  /\ []AlwaysDelivered
  /\ [][\A r \in 1..MaxTurns : Advances(r) => StepAsStoreUp(r, TRUE)]_vars

\* a turn was answered although none of its rows reached the database, and the context
\* holds both of its turns
StoreFailureIsNotFatalWitness ==
  /\ Len(responses) = 1
  /\ responses[1].status = 200
  /\ dbMessages = <<>>
  /\ dbSessions = EmptyMap
  /\ \E sessionId \in DOMAIN sessions : Len(contexts[sessions[sessionId]].conversationHistory) = 2

(***************************************************************************)
(* The rate limit                                                          *)
(***************************************************************************)

\* the chat requests of the session that were let through so far
AcceptedFor(sessionId) ==
  Cardinality({i \in 1..Len(responses) :
                 responses[i].sessionId = sessionId /\ responses[i].status # 429})
    + Cardinality({r \in DOMAIN inflight : inflight[r].sessionId = sessionId})

\* the step receives a chat request of the session and rejects it with the error 429
RejectedNow(sessionId) ==
  /\ Len(responses') > Len(responses)
  /\ responses'[Len(responses')].status = 429
  /\ responses'[Len(responses')].sessionId = sessionId

\* the step receives a chat request of the session
RequestedNow(sessionId) ==
  \/ \E r \in DOMAIN inflight' \ DOMAIN inflight : inflight'[r].sessionId = sessionId
  \/ RejectedNow(sessionId)

\* the session has a window that has not expired, with the maximum reached
WindowFull(sessionId) ==
  /\ sessionId \in DOMAIN rateLimits
  /\ now <= rateLimits[sessionId].resetTime
  /\ rateLimits[sessionId].count >= RATE_LIMIT_MAX_REQUESTS

Cleared(sessionId) == sessionId \in DOMAIN dbSessions /\ sessionId \notin DOMAIN sessions

\* the step answers a history or export request for the session
ReadNow(sessionId) ==
  /\ directCall' # directCall
  /\ directCall'.fn \in {"history", "export"}
  /\ directCall'.arg = <<sessionId>>

\* C32: once a session is cleared, a history or export request for it returns none of the
\* turns recorded before the clear
ClearedTurnsAreGone ==
  [][\A sessionId \in SessionIds :
       (Cleared(sessionId) /\ ReadNow(sessionId))
         => directCall'.flow[1].conversationHistory = <<>>]_vars

(***************************************************************************)
(* The conversation history                                                *)
(***************************************************************************)

\* C33: the conversation history is append-only and its turns are immutable: in every
\* step the history of every context object, and of every session that stays in the Map,
\* keeps the turns it had, in their places and unchanged, and may only get turns at its end
HistoryIsAppendOnly ==
  [][/\ \A obj \in 1..Len(contexts) :
          /\ obj <= Len(contexts')
          /\ StartsWith(contexts'[obj].conversationHistory, contexts[obj].conversationHistory)
     /\ \A sessionId \in SessionIds :
          (sessionId \in DOMAIN sessions /\ sessionId \in DOMAIN sessions')
            => StartsWith(contexts'[sessions'[sessionId]].conversationHistory,
                          SessionContext(sessionId).conversationHistory)]_vars

\* three turns of a session were answered, each added to the history of the one before
HistoryIsAppendOnlyWitness ==
  /\ Len(responses) = 3
  /\ \A i \in 1..3 : responses[i].status = 200
  /\ \E sessionId \in DOMAIN sessions : Len(SessionContext(sessionId).conversationHistory) >= 6

(***************************************************************************)
(* The first symptom message of a session                                  *)
(***************************************************************************)

\* the turn t is the first turn of its session
FirstTurn(t) == \A u \in 1..(t - 1) : responses[u].sessionId # responses[t].sessionId

\* some element of the list of quick actions offers to schedule an appointment
OffersAppointment(quickActions) ==
  \E n \in 1..Len(quickActions) : includes(toLowerCase(quickActions[n]), "appointment")

\* C34: the answer to a first message "I have a headache" of a session is the answer to a
\* symptom message, contains the follow-up question about the duration and offers a quick
\* action to schedule an appointment
FirstHeadacheAsksDuration ==
  \A t \in 1..Len(responses) :
    (responses[t].message = "I have a headache" /\ FirstTurn(t))
      => /\ responses[t].status = 200
         /\ detectIntent("I have a headache") = "symptom"
         /\ responses[t].path \in {"symptom_ai", "symptom_rules"}
         /\ includes(responses[t].response, "How long have you been experiencing this?")
         /\ OffersAppointment(responses[t].quickActions)

(***************************************************************************)
(* The turns a completed request adds to the history                       *)
(***************************************************************************)

\* the requests of the session that were answered with a response of generateResponse
CompletedTurns(sessionId) ==
  SelectSeq(responses, LAMBDA a : a.sessionId = sessionId /\ a.status = 200)

\* the history is a sequence of pairs: a user turn, then an assistant turn
StrictlyAlternates(history) ==
  \A n \in 1..Len(history) : history[n].role = (IF n % 2 = 1 THEN "user" ELSE "bot")

\* C35: every completed turn appends exactly one user turn followed by exactly one
\* assistant turn: once the requests of a serial client are answered, the history of the
\* session has two turns per completed request and alternates user and assistant
OnePairPerTurn ==
  \A sessionId \in DOMAIN sessions :
    DOMAIN inflight = {} =>
      /\ Len(SessionContext(sessionId).conversationHistory) = 2 * Len(CompletedTurns(sessionId))
      /\ StrictlyAlternates(SessionContext(sessionId).conversationHistory)

(***************************************************************************)
(* The text recorded for an answer                                         *)
(***************************************************************************)

\* the assistant entries among those added to a sequence of turns or rows
AddedByAssistant(before, after) ==
  SelectSeq(SubSeq(after, Len(before) + 1, Len(after)), LAMBDA e : e.role = "bot")

\* every one of the entries has this text
AllHaveText(entries, text) == \A n \in 1..Len(entries) : entries[n].message = text

\* C36: the assistant turn recorded for a turn, in the conversation history and in the
\* store, has exactly the text returned as the response of the turn: at the step that
\* sends the response of generateResponse, the history has got an assistant turn, and the
\* assistant turns and the assistant rows the step has written have the text of the response
RecordedTextIsReturnedText ==
  [][\A sessionId \in SessionIds :
       (/\ Len(responses') = Len(responses) + 1
        /\ responses'[Len(responses')].status = 200
        /\ responses'[Len(responses')].sessionId = sessionId
        /\ sessionId \in DOMAIN sessions)
       => /\ AddedByAssistant(SessionContext(sessionId).conversationHistory,
                              contexts'[sessions'[sessionId]].conversationHistory) # <<>>
          /\ AllHaveText(AddedByAssistant(SessionContext(sessionId).conversationHistory,
                                          contexts'[sessions'[sessionId]].conversationHistory),
                         responses'[Len(responses')].response)
          /\ AllHaveText(AddedByAssistant(getMessages(dbMessages, sessionId),
                                          getMessages(dbMessages', sessionId)),
                         responses'[Len(responses')].response)]_vars

(***************************************************************************)
(* The session state and the outcome of the AI call                        *)
(***************************************************************************)

\* the state a turn leaves in the context: the asked-flags of the symptom questions, the
\* appointment state and the profile
SessionStateOf(context) ==
  [askedDuration |-> context.askedDuration, askedSeverity |-> context.askedSeverity,
   askedOtherSymptoms |-> context.askedOtherSymptoms,
   appointment |-> AppointmentState(context), userInfo |-> context.userInfo]

\* the context generateResponse leaves when the AI call of request req resolves to aiResponse
ContextAfterAI(req, aiResponse, rnd) ==
  generateResponseFinish(req.message, req.sessionId, contexts[req.obj], req.intent,
                         req.interactionWarnings, aiResponse, rnd).ctx

\* C37: the session state after a turn does not depend on the outcome of the AI call:
\* at the step that resumes generateResponse after the call, the state the context gets is
\* the state it gets with every outcome of the call, a text or none
StateIgnoresAIOutcome ==
  [][\A r \in DOMAIN inflight :
       (Awaiting(r) /\ r \notin DOMAIN inflight')
         => \A aiResponse \in AIOutcomes, rnd \in RandomDraws :
              SessionStateOf(contexts'[inflight[r].obj])
                = SessionStateOf(ContextAfterAI(inflight[r], aiResponse, rnd))]_vars

(***************************************************************************)
(* A booking in progress                                                   *)
(***************************************************************************)

\* the flow waits for the date / for the reason
InAskedDate(state) == state.askedDate /\ ~state.askedReason
InAskedReason(state) == state.askedReason

\* the turn that found the flow in AskedDate or AskedReason took its message as the
\* answer to the pending question; the turn that left the flow found it in AskedReason
ConsumedAsAnswer(turn) ==
  /\ InAskedDate(turn.before)
       => /\ turn.after = [turn.before EXCEPT !.askedReason = TRUE, !.date = turn.message]
          /\ turn.response = AskReasonResponse(turn.message)
  /\ InAskedReason(turn.before)
       => /\ turn.after = IdleState
          /\ turn.response = SummaryResponse(turn.before.type, turn.before.date, turn.message)
  /\ (turn.before.askedType /\ ~turn.after.askedType) => InAskedReason(turn.before)

\* C38: once a booking is in progress the flow returns to Idle only through the closing
\* step of AskedReason: no step of the server takes the first flag of a session back
\* unless the third is set and the step is that closing step, whatever the message, Cancel
\* included; and in AskedDate and AskedReason every message is consumed as the answer
BookingOnlyEndsByClosing ==
  /\ [](\A t \in 1..Len(responses) : responses[t].status = 200 => ConsumedAsAnswer(responses[t]))
  /\ [][\A sessionId \in SessionIds :
          (/\ sessionId \in DOMAIN sessions
           /\ SessionContext(sessionId).askedAppointmentType
           /\ ~contexts'[sessions'[sessionId]].askedAppointmentType)
          => /\ SessionContext(sessionId).askedAppointmentReason
             /\ AppointmentState(contexts'[sessions'[sessionId]]) = IdleState
             /\ Len(responses') = Len(responses) + 1
             /\ responses'[Len(responses')].quickActions
                  = <<"New Appointment", "View Details", "Contact Support">>]_vars

\* a booking was closed after Cancel was taken as its date and a message of emergency
\* intent as its reason
BookingOnlyEndsByClosingWitness ==
  /\ Len(responses) = 4
  /\ responses[3].message = "Cancel" /\ InAskedDate(responses[3].before)
  /\ responses[4].message = "I have severe chest pain" /\ InAskedReason(responses[4].before)
  /\ responses[4].after = IdleState

(***************************************************************************)
(* The appointment values and the flags                                    *)
(***************************************************************************)

\* the value of a key of the metadata object of a row, undefined read as dflt
metaValue(metadata, key, dflt) == IF key \in DOMAIN metadata THEN metadata[key] ELSE dflt

\* the appointment state written to the row of the session in the store
StoredAppointmentState(sessionId) ==
  [askedType   |-> metaValue(dbSessions[sessionId].metadata, "askedAppointmentType", FALSE),
   askedDate   |-> metaValue(dbSessions[sessionId].metadata, "askedAppointmentDate", FALSE),
   askedReason |-> metaValue(dbSessions[sessionId].metadata, "askedAppointmentReason", FALSE),
   type        |-> metaValue(dbSessions[sessionId].metadata, "appointmentType", NULL),
   date        |-> metaValue(dbSessions[sessionId].metadata, "appointmentDate", NULL),
   reason      |-> metaValue(dbSessions[sessionId].metadata, "appointmentReason", NULL)]

\* the type is set exactly when the date was asked for, the date exactly when the reason
\* was asked for, and no reason is kept
ValuesAgreeWithFlags(state) ==
  /\ (state.type # NULL) <=> state.askedDate
  /\ (state.date # NULL) <=> state.askedReason
  /\ state.reason = NULL

\* C39: at every turn boundary of a session created by the chat endpoint the appointment
\* values agree with the flags, in the context of the session and in its row in the
\* store: appointmentType is set exactly when askedAppointmentDate is true, appointmentDate
\* exactly when askedAppointmentReason is true, and appointmentReason is null
AppointmentValuesMatchFlags ==
  \A sessionId \in DOMAIN sessions :
    /\ ValuesAgreeWithFlags(AppointmentState(SessionContext(sessionId)))
    /\ sessionId \in DOMAIN dbSessions => ValuesAgreeWithFlags(StoredAppointmentState(sessionId))

\* the three states of a booking in progress were passed and the booking was closed
AppointmentValuesMatchFlagsWitness ==
  /\ Len(responses) = 4
  /\ InAskedDate(responses[2].after) /\ responses[2].after.type = "Cancel"
  /\ InAskedReason(responses[3].after) /\ responses[3].after.date = "Tomorrow"
  /\ responses[4].after = IdleState
  /\ \A sessionId \in DOMAIN sessions :
       /\ AppointmentState(SessionContext(sessionId)) = IdleState
       /\ StoredAppointmentState(sessionId) = IdleState

(***************************************************************************)
(* The asked-flags and the questions delivered                             *)
(***************************************************************************)

\* some response sent to the session contains the question
Delivered(sessionId, question) ==
  \E t \in 1..Len(responses) :
    /\ responses[t].sessionId = sessionId
    /\ responses[t].status = 200
    /\ includes(responses[t].response, question)

\* C40: an asked-flag is true only if the matching follow-up question was delivered:
\* whenever askedDuration, askedSeverity or askedOtherSymptoms of a session is true, some
\* response sent to the session contained the question about the duration, the severity
\* or other symptoms
AskedOnlyIfDelivered ==
  \A sessionId \in DOMAIN sessions :
    /\ SessionContext(sessionId).askedDuration
         => Delivered(sessionId, "How long have you been experiencing this?")
    /\ SessionContext(sessionId).askedSeverity
         => Delivered(sessionId, "On a scale of 1-10, how would you rate the severity?")
    /\ SessionContext(sessionId).askedOtherSymptoms
         => Delivered(sessionId, "Are you experiencing any other symptoms?")

====
